---- MODULE Spec2Model ----
(***************************************************************************)
(* AutoBrowser: the Coordinator's orchestration loop, the delegate         *)
(* sub-loop, the tool registry's dispatcher and the navigation guard.      *)
(*                                                                         *)
(* Strings are sequences of tokens: a token is a word of the program's     *)
(* texts (the reserved prefixes, ":", " ", a tool name, ...), so that      *)
(* startswith, split and replace are computed on the text itself.          *)
(***************************************************************************)
EXTENDS Integers, Sequences, FiniteSets, TLC

\* ---------------------------------------------------------------- bounds
MaxIterations == 4
MaxCalls == 2
MaxIds == 2
MaxFailingIds == 3
MaxDelegatingIds == 3
MaxSteps == 2
MaxSelectorLen == 3
MaxStarts == 2
MaxTabs == 3
MaxHandles == 4
TokenLimit == 2
MaxLines == 4
MaxLineLen == 5
MaxNodes == 2
MaxPrimitiveIds == 2
MaxOwnLen == 3001

\* ------------------------------------------------------ program constants
max_no_tool_retries == 3
max_consecutive_failures == 3
max_iterations == MaxIterations
max_steps == MaxSteps

\* ------------------------------------------------------------ text helpers
StartsWith(s, p) == Len(s) >= Len(p) /\ SubSeq(s, 1, Len(p)) = p

Tail2(s) == SubSeq(s, 3, Len(s))

\* index of the first token equal to t at or after position i, 0 when none
RECURSIVE Find(_, _, _)
Find(s, t, i) ==
    IF i > Len(s) THEN 0
    ELSE IF s[i] = t THEN i
    ELSE Find(s, t, i + 1)

\* str.split(":", 2): at most three parts, cut at the first two colons
SplitColon2(s) ==
    LET a == Find(s, ":", 1) IN
    IF a = 0 THEN << s >>
    ELSE LET b == Find(s, ":", a + 1) IN
         IF b = 0 THEN << SubSeq(s, 1, a - 1), SubSeq(s, a + 1, Len(s)) >>
         ELSE << SubSeq(s, 1, a - 1), SubSeq(s, a + 1, b - 1),
                 SubSeq(s, b + 1, Len(s)) >>

\* str.replace(p, "") for the two-token text p, left to right
RECURSIVE RemoveAll(_, _)
RemoveAll(s, p) ==
    IF Len(s) = 0 THEN << >>
    ELSE IF StartsWith(s, p) THEN RemoveAll(Tail2(s), p)
    ELSE << Head(s) >> \o RemoveAll(Tail(s), p)

RECURSIVE LStrip(_)
LStrip(s) ==
    IF Len(s) > 0 /\ Head(s) = " " THEN LStrip(Tail(s)) ELSE s

RECURSIVE RStrip(_)
RStrip(s) ==
    IF Len(s) > 0 /\ s[Len(s)] = " " THEN RStrip(SubSeq(s, 1, Len(s) - 1)) ELSE s

Strip(s) == RStrip(LStrip(s))

\* ------------------------------------------------------------ tool inputs
\* a tool input is a dict: here a set of <<key, text>> pairs with unique keys
Keys(d) == { p[1] : p \in d }

Get(d, k, default) ==
    IF k \in Keys(d) THEN (CHOOSE p \in d : p[1] = k)[2] ELSE default

\* ------------------------------------------------------------- registries
CoordinatorTools ==
    { "navigate_to", "click", "hover", "type_text", "scroll", "press_key",
      "wait_for_element", "list_tabs", "switch_to_tab", "close_tab",
      "switch_to_frame", "switch_to_main_content", "get_page_overview",
      "get_element_details", "find_element_by_text", "delegate_to_subagent",
      "request_human_help", "request_confirmation", "task_complete" }

NavigatorTools ==
    { "navigate_to", "click", "hover", "scroll", "wait_for_element",
      "get_page_overview", "get_element_details", "press_key" }

FormFillerTools ==
    { "type_text", "click", "wait_for_element", "get_page_overview",
      "get_element_details", "press_key" }

DataReaderTools ==
    { "get_page_overview", "get_element_details", "scroll", "wait_for_element" }

SubAgentNames == { "navigator", "form_filler", "data_reader" }

\* sub-agents handed the Coordinator's registry instead of their own
SubAgentToolsShared(a) == CoordinatorTools

\* Navigator._create_tools, FormFiller._create_tools, DataReader._create_tools
SubAgentTools(a) ==
    CASE a = "navigator" -> NavigatorTools
      [] a = "form_filler" -> FormFillerTools
      [] OTHER -> DataReaderTools

\* the handler lambdas' required and optional keyword parameters
RequiredParams(name) ==
    CASE name = "navigate_to" -> { "url" }
      [] name \in { "click", "hover" } -> { "selector", "description" }
      [] name = "type_text" -> { "selector", "text" }
      [] name = "scroll" -> { "direction" }
      [] name = "press_key" -> { "key" }
      [] name \in { "wait_for_element", "get_element_details", "switch_to_frame" } -> { "selector" }
      [] name \in { "switch_to_tab", "close_tab" } -> { "tab_index" }
      [] name = "find_element_by_text" -> { "text" }
      [] name = "delegate_to_subagent" -> { "subagent", "subtask" }
      [] name = "request_human_help" -> { "description" }
      [] name = "request_confirmation" -> { "action_description", "risk_level" }
      [] name = "task_complete" -> { "summary" }
      [] OTHER -> { }

OptionalParams(name) ==
    CASE name = "scroll" -> { "amount" }
      [] name = "wait_for_element" -> { "timeout" }
      [] name = "find_element_by_text" -> { "role" }
      [] OTHER -> { }

\* handler(**kwargs) binds: every required parameter given, nothing unknown
Binds(name, kwargs) ==
    /\ RequiredParams(name) \subseteq Keys(kwargs)
    /\ Keys(kwargs) \subseteq RequiredParams(name) \cup OptionalParams(name)

\* ------------------------------------------------------------- dispatcher
Return(text) == [kind |-> "return", exc |-> "", text |-> text]
Raise(exc)   == [kind |-> "raise", exc |-> exc, text |-> << >>]

\* the error text written without the capital the success check looks for
ErrorTextLowercase(name, msg) == << "error", " executing tool ", name, ":", " " >> \o msg

ErrorText(name, msg) == << "Error", " executing tool ", name, ":", " " >> \o msg

\* ToolRegistry.get_tool raises ValueError for a name that is not registered
GetToolRaises(registry, name) == name \notin registry

\* ToolRegistry.execute_tool(name, **kwargs).  h is what the handler does
\* once it is called with arguments that bind: return a text, raise an
\* Exception, or be interrupted (KeyboardInterrupt is not an Exception).
execute_tool(registry, name, kwargs, h) ==
    IF Keys(kwargs) \cap { "self", "name" } # { }
    THEN Raise("TypeError")
    ELSE IF GetToolRaises(registry, name)
    THEN Raise("ValueError")
    ELSE IF ~Binds(name, kwargs)
    THEN Return(ErrorText(name, << "TypeError" >>))
    ELSE IF h.kind = "return"
    THEN Return(h.text)
    ELSE IF h.kind = "raise"
    THEN Return(ErrorText(name, h.text))
    ELSE Raise("KeyboardInterrupt")

\* ----------------------------------------------------------- the handlers
ConfirmPrefix == << "CONFIRMATION_REQUIRED", ":" >>
HumanPrefix   == << "HUMAN_INTERVENTION_REQUIRED", ":" >>

HReturn(text) == [kind |-> "return", text |-> text]
HRaise(msg)   == [kind |-> "raise", text |-> msg]
HInterrupt    == [kind |-> "interrupt", text |-> << >>]

request_human_help(kwargs) ==
    HReturn(HumanPrefix \o << " " >> \o Get(kwargs, "description", << >>))

request_confirmation(kwargs) ==
    HReturn(ConfirmPrefix \o Get(kwargs, "risk_level", << >>) \o << ":" >>
            \o Get(kwargs, "action_description", << >>))

task_complete_handler(kwargs) ==
    HReturn(<< "TASK_COMPLETE", ":", " " >> \o Get(kwargs, "summary", << >>))

\* what the browser-backed handlers can do, by tool
click_handler ==
    { HReturn(<< "Successfully", " clicked" >>),
      HReturn(<< "Failed", " to click" >>),
      HInterrupt }

get_page_overview_handler ==
    { HReturn(<< "BUTTONS", ":", " - Submit" >>),
      HRaise(<< "page closed" >>),
      HInterrupt }

scroll_handler ==
    { HReturn(<< "Successfully", " scrolled" >>),
      HReturn(<< "Failed", " to scroll" >>),
      HInterrupt }

HandlerOutcomes(name, kwargs) ==
    CASE name = "request_human_help" -> { request_human_help(kwargs) }
      [] name = "request_confirmation" -> { request_confirmation(kwargs) }
      [] name = "task_complete" -> { task_complete_handler(kwargs) }
      [] name = "get_page_overview" -> get_page_overview_handler
      [] name = "scroll" -> scroll_handler
      [] OTHER -> click_handler

\* ------------------------------------------------- the model collaborator
Call(id, name, input) == [id |-> id, name |-> name, input |-> input]

\* the (name, input) requests the model may make of the Coordinator
CoordinatorAsks ==
    { << "task_complete", { << "summary", << "all done" >> >> } >>,
      << "task_complete", { } >>,
      << "click", { << "selector", << "#go" >> >>, << "description", << "go" >> >> } >>,
      << "click", { << "name", << "go" >> >> } >>,
      << "get_page_overview", { } >>,
      << "get_page_overview", { << "selector", << "#go" >> >> } >>,
      << "request_confirmation",
         { << "action_description", << "buy" >> >>, << "risk_level", << "financial" >> >> } >>,
      << "request_human_help", { << "description", << "solve captcha" >> >> } >>,
      << "delegate_to_subagent",
         { << "subagent", << "data_reader" >> >>, << "subtask", << "read" >> >> } >>,
      << "open_sesame", { } >> }

\* The model collaborator's repertoire in one run, and the number of tool-use
\* ids it issues in that run: every request with few ids, or the requests of
\* one kind with one id more.
FailingAsks ==
    { a \in CoordinatorAsks : a[1] \in { "click", "get_page_overview", "task_complete" } }

DelegatingAsks ==
    { a \in CoordinatorAsks : a[1] \in { "delegate_to_subagent", "task_complete" } }

\* the interaction primitives, each asked for with a locator that validates
PrimitiveAsks ==
    { << "click", { << "selector", << "#go" >> >>, << "description", << "go" >> >> } >>,
      << "hover", { << "selector", << "#go" >> >>, << "description", << "go" >> >> } >>,
      << "type_text", { << "selector", << "#go" >> >>, << "text", << "hello" >> >> } >>,
      << "wait_for_element", { << "selector", << "#go" >> >> } >> }

Repertoires == { "mixed", "failing", "delegating", "primitives" }

Asks(r) ==
    CASE r = "failing" -> FailingAsks
      [] r = "delegating" -> DelegatingAsks
      [] r = "primitives" -> PrimitiveAsks
      [] OTHER -> CoordinatorAsks

IdBudget(r) ==
    CASE r = "failing" -> MaxFailingIds
      [] r = "delegating" -> MaxDelegatingIds
      [] r = "primitives" -> MaxPrimitiveIds
      [] OTHER -> MaxIds

\* the requests the model may make inside a delegate sub-loop
SubAgentAsks ==
    { << "get_page_overview", { } >>,
      << "task_complete", { << "summary", << "all done" >> >> } >> }

\* the texts a sub-loop's final response may carry
SubAgentTexts ==
    { << "The title is X" >>,
      << "CONFIRMATION_REQUIRED", ":", "sure?" >> }

\* responses with k tool-use blocks, ids first .. first + k - 1
RECURSIVE Responses(_, _, _)
Responses(asks, first, k) ==
    IF k = 0 THEN { << >> }
    ELSE { << Call(first, a[1], a[2]) >> \o r :
             a \in asks, r \in Responses(asks, first + 1, k - 1) }

\* ------------------------------------------------------------ conversation
Msg(role, type, id, content, calls) ==
    [role |-> role, type |-> type, id |-> id, content |-> content, calls |-> calls]

TaskMsg == Msg("user", "task", 0, << "Task", ":", " ", "do it" >>, << >>)
AssistantMsg(text, calls) == Msg("assistant", "response", 0, text, calls)

\* ClaudeClient.create_tool_result_message
create_tool_result_message(id, result) == Msg("user", "tool_result", id, result, << >>)

\* ------------------------------------------------- Safe-navigation guard
\* An address is a sequence of characters; its host (example.com, 127.0.0.1)
\* is one token, which holds no ":" and no "/".
UpperLetters == << "A", "B", "C", "D", "E", "F", "G", "H", "I", "J", "K", "L", "M",
                  "N", "O", "P", "Q", "R", "S", "T", "U", "V", "W", "X", "Y", "Z" >>
LowerLetters == << "a", "b", "c", "d", "e", "f", "g", "h", "i", "j", "k", "l", "m",
                  "n", "o", "p", "q", "r", "s", "t", "u", "v", "w", "x", "y", "z" >>

LowerChar(c) ==
    IF \E i \in 1 .. 26 : UpperLetters[i] = c
    THEN LowerLetters[CHOOSE i \in 1 .. 26 : UpperLetters[i] = c]
    ELSE c

UpperChar(c) ==
    IF \E i \in 1 .. 26 : LowerLetters[i] = c
    THEN UpperLetters[CHOOSE i \in 1 .. 26 : LowerLetters[i] = c]
    ELSE c

\* str.lower()
Lower(s) == [i \in 1 .. Len(s) |-> LowerChar(s[i])]

\* p in s
Contains(s, p) ==
    \E i \in 1 .. Len(s) - Len(p) + 1 : SubSeq(s, i, i + Len(p) - 1) = p

SchemeSep == << ":", "/", "/" >>

safe_protocols ==
    { << "h", "t", "t", "p", ":", "/", "/" >>,
      << "h", "t", "t", "p", "s", ":", "/", "/" >> }

dangerous_protocols ==
    { << "j", "a", "v", "a", "s", "c", "r", "i", "p", "t", ":" >>,
      << "d", "a", "t", "a", ":" >>,
      << "f", "i", "l", "e", ":" >>,
      << "f", "t", "p", ":" >>,
      << "a", "b", "o", "u", "t", ":" >>,
      << "b", "l", "o", "b", ":" >>,
      << "v", "b", "s", "c", "r", "i", "p", "t", ":" >> }

\* urlparse(url).hostname: the host that follows the first "://"
Hostname(url) ==
    LET u == Strip(url)
        i == CHOOSE k \in 1 .. Len(u) - 2 : SubSeq(u, k, k + 2) = SchemeSep
                 /\ \A j \in 1 .. k - 1 : SubSeq(u, j, j + 2) # SchemeSep
    IN  IF Contains(u, SchemeSep) /\ Len(u) >= i + 3 /\ u[i + 3] \notin { "/", ":" }
        THEN Lower(<< u[i + 3] >>)
        ELSE << >>

\* the hosts ipaddress reports as private, loopback or link-local
PrivateAddresses == { "127.0.0.1", "10.0.0.1", "192.168.1.1", "169.254.1.1" }

LocalNames == { "localhost", "127.0.0.1", "::1" }

\* BrowserController._is_safe_url
controller_is_safe_url(url) ==
    LET url_lower == Strip(Lower(url)) IN
    IF ~Contains(url_lower, SchemeSep) THEN TRUE
    ELSE IF \E dangerous \in dangerous_protocols : StartsWith(url_lower, dangerous) THEN FALSE
    ELSE IF \E safe \in safe_protocols : StartsWith(url_lower, safe) THEN TRUE
    ELSE FALSE

\* BrowserNavigator._is_safe_url
navigator_is_safe_url(url) ==
    LET url_lower == Strip(Lower(url))
        hostname == Hostname(url)
    IN
    IF ~Contains(url_lower, SchemeSep) THEN TRUE
    ELSE IF \E dangerous \in dangerous_protocols : StartsWith(url_lower, dangerous) THEN FALSE
    ELSE IF \E safe \in safe_protocols : StartsWith(url_lower, safe)
    THEN IF hostname # << >>
              /\ (hostname[1] \in PrivateAddresses \/ hostname[1] \in LocalNames)
         THEN FALSE
         ELSE TRUE
    ELSE FALSE

is_safe_url(class, url) ==
    IF class = "BrowserController" THEN controller_is_safe_url(url)
    ELSE navigator_is_safe_url(url)

\* the address navigate_to hands to page.goto
GotoAddress(url) ==
    IF StartsWith(url, << "h", "t", "t", "p", ":", "/", "/" >>) \/ StartsWith(url, << "h", "t", "t", "p", "s", ":", "/", "/" >>)
    THEN url
    ELSE << "h", "t", "t", "p", "s", ":", "/", "/" >> \o url

\* the addresses the tool is given
Schemes ==
    { << "j", "a", "v", "a", "s", "c", "r", "i", "p", "t" >>,
      << "d", "a", "t", "a" >>,
      << "f", "i", "l", "e" >>,
      << "f", "t", "p" >>,
      << "a", "b", "o", "u", "t" >>,
      << "b", "l", "o", "b" >>,
      << "v", "b", "s", "c", "r", "i", "p", "t" >>,
      << "h", "t", "t", "p" >>,
      << "h", "t", "t", "p", "s" >>,
      << "m", "a", "i", "l", "t", "o" >> }

Capitalized(s) == [i \in 1 .. Len(s) |-> IF i = 1 THEN UpperChar(s[i]) ELSE s[i]]
AllCaps(s) == [i \in 1 .. Len(s) |-> UpperChar(s[i])]

Spellings(s) == { s, Capitalized(s), AllCaps(s) }

Hosts == { "example.com", "localhost", "127.0.0.1" }

Leads == { << >>, << " " >> }

Separators == { << ":" >>, SchemeSep }

SchemedAddresses ==
    { lead \o spelled \o sep \o << host >> :
        lead \in Leads, spelled \in UNION { Spellings(s) : s \in Schemes },
        sep \in Separators, host \in Hosts }

BareHostnames == { << host >> : host \in Hosts } \cup { << host, ":", "8080" >> : host \in Hosts }

PathAddresses == { << host, "/", "r", "?", "u", "=" >> \o << "h", "t", "t", "p", ":", "/", "/" >> \o << "x" >> : host \in Hosts }

Addresses == SchemedAddresses \cup BareHostnames \cup PathAddresses

\* ----------------------------------------------------------------- state
VARIABLES
    pc,                    \* where execute_task stands
    conversation,          \* Coordinator.conversation
    task_complete,         \* Coordinator.task_complete
    task_summary,          \* Coordinator.task_summary, << >> for None
    consecutive_failures,  \* Coordinator.consecutive_failures
    iteration,             \* execute_task's local iteration
    no_tool_retry_count,   \* execute_task's local no_tool_retry_count
    tool_calls,            \* the tool calls of the response being processed
    ti,                    \* index in tool_calls of the call being processed
    prompt,                \* what the console is asking the human, if anything
    returned,              \* execute_task's return value, << >> before it returns
    raised,                \* the exception execute_task ended with, "" if none
    nextId,                \* the next tool-use id the model collaborator issues
    repertoire,            \* the requests the model collaborator makes in this run
    modelCalls,            \* send_message calls made by execute_task
    dispatched,            \* ids passed to the Coordinator's registry, in order
    handled,               \* how each handler the Coordinator's registry called ended
    subpc,                 \* where SubAgent.execute stands
    subAgent,              \* the sub-agent that is or was last running
    subConversation,       \* SubAgent.conversation
    step,                  \* SubAgent.execute's local step (0-based, as range)
    subCalls,              \* the sub-loop's tool calls being processed
    subTi,                 \* index in subCalls
    subModelCalls,         \* send_message calls made by the current execute
    subDispatched,         \* ids passed to the sub-agent's registry, in order
    subReturned,           \* what the last execute returned, << >> if it did not
    navClass,              \* the class whose navigate_to was called last
    navUrl,                \* the address navigate_to is given
    navOutcome,            \* how that call ended
    gotoUrl                \* the address page.goto was asked to load, if any

coordVars == << pc, conversation, task_complete, task_summary,
                consecutive_failures, iteration, no_tool_retry_count,
                tool_calls, ti, prompt, returned, raised, nextId, repertoire,
                modelCalls, dispatched, handled >>

subVars == << subpc, subAgent, subConversation, step, subCalls, subTi,
              subModelCalls, subDispatched, subReturned >>

navVars == << navClass, navUrl, navOutcome, gotoUrl >>

VARIABLES
    selector,              \* the locator a validator or a handler is given
    selCall,               \* the validator or tool called on it, "" before the call
    selResult,             \* what the call returned
    selPageOps             \* the page operations the call performed, in order

selVars == << selector, selCall, selResult, selPageOps >>

VARIABLES
    sess_playwright,       \* BrowserController._playwright, 0 for None
    sess_context,          \* BrowserController._context, 0 for None
    sess_page,             \* BrowserController._page, << >> for None
    is_started,            \* BrowserController._is_started
    current_frame_selector,\* BrowserController._current_frame_selector, << >> for None
    pages,                 \* _context.pages of the context launched last
    launches,              \* launch_persistent_context calls made so far
    kills,                 \* _kill_existing_browser_processes calls made so far
    nextHandle,            \* the number of the next page the context opens
    lastCall               \* the session operation called last and how it ended

sessVars == << sess_playwright, sess_context, sess_page, is_started,
               current_frame_selector, pages, launches, kills, nextHandle,
               lastCall >>

VARIABLES
    overview,              \* what DOMExtractor.get_page_overview returns
    context                \* what get_current_context returned

ctxVars == << overview, context >>

VARIABLES
    dom,                   \* the elements under document.body, in document order
    parentElement,         \* each element's parent, 0 for document.body
    markers,               \* each element's data-autobrowser-find-id, -1 for none
    findResult,            \* the elements of the last find_elements_by_text result
    findCall               \* the arguments of the last find_elements_by_text call

domVars == << dom, parentElement, markers, findResult, findCall >>

VARIABLES
    clickPage,             \* how each page operation a click may make would end
    clickOps,              \* the page operations the last click made, in order
    clickResult            \* how the last click ended, << >> before the call

clickVars == << clickPage, clickOps, clickResult >>

VARIABLES
    extractor_page,        \* ContextManager.extractor.page, << >> before ContextManager()
    lastRead               \* the page-reading tool called last and the pages it used

readVars == << extractor_page, lastRead >>

pageVars == << domVars, clickVars, readVars >>

browserVars == << navVars, selVars, sessVars, ctxVars, pageVars >>

NoPrompt == [kind |-> "none", risk |-> << >>, description |-> << >>]

\* Coordinator.__init__ and a SubAgent.__init__
CoordInit ==
    /\ pc = "ready"
    /\ conversation = << >>
    /\ task_complete = FALSE
    /\ task_summary = << >>
    /\ consecutive_failures = 0
    /\ iteration = 0
    /\ no_tool_retry_count = 0
    /\ tool_calls = << >>
    /\ ti = 0
    /\ prompt = NoPrompt
    /\ returned = << >>
    /\ raised = ""
    /\ nextId = 1
    /\ repertoire \in Repertoires
    /\ modelCalls = 0
    /\ dispatched = << >>
    /\ handled = << >>

SubInit ==
    /\ subpc = "idle"
    /\ subAgent = ""
    /\ subConversation = << >>
    /\ step = 0
    /\ subCalls = << >>
    /\ subTi = 0
    /\ subModelCalls = 0
    /\ subDispatched = << >>
    /\ subReturned = << >>

\* ------------------------------------------------------ locator validation
SelInit ==
    /\ selector = << >>
    /\ selCall = ""
    /\ selResult = << >>
    /\ selPageOps = << >>

Quotes == { "\"", "'" }

\* the comma loop of BrowserController.validate_selector: TRUE when it
\* returns the comma error
RECURSIVE controller_comma_scan(_, _, _, _, _)
controller_comma_scan(s, i, in_quotes, quote_char, in_brackets) ==
    IF i > Len(s) THEN FALSE
    ELSE LET char == s[i] IN
         IF char \in Quotes /\ (i = 1 \/ s[i - 1] # "\\")
         THEN IF ~in_quotes
              THEN controller_comma_scan(s, i + 1, TRUE, char, in_brackets)
              ELSE IF char = quote_char
              THEN controller_comma_scan(s, i + 1, FALSE, "", in_brackets)
              ELSE controller_comma_scan(s, i + 1, in_quotes, quote_char, in_brackets)
         ELSE IF char = "[" /\ ~in_quotes
         THEN controller_comma_scan(s, i + 1, in_quotes, quote_char, in_brackets + 1)
         ELSE IF char = "]" /\ ~in_quotes
         THEN controller_comma_scan(s, i + 1, in_quotes, quote_char, in_brackets - 1)
         ELSE IF char = "," /\ ~in_quotes /\ in_brackets = 0
         THEN TRUE
         ELSE controller_comma_scan(s, i + 1, in_quotes, quote_char, in_brackets)

\* BrowserInteractor._check_invalid_commas, with _is_quote_char and
\* _toggle_quotes: TRUE when it returns the comma error
RECURSIVE check_invalid_commas(_, _, _, _, _)
check_invalid_commas(s, i, in_quotes, quote_char, in_brackets) ==
    IF i > Len(s) THEN FALSE
    ELSE LET char == s[i]
             is_not_escaped == i = 1 \/ s[i - 1] # "\\"
         IN
         IF char \in Quotes /\ is_not_escaped /\ (~in_quotes \/ char = quote_char)
         THEN IF ~in_quotes
              THEN check_invalid_commas(s, i + 1, TRUE, char, in_brackets)
              ELSE check_invalid_commas(s, i + 1, FALSE, "", in_brackets)
         ELSE IF char = "[" /\ ~in_quotes
         THEN check_invalid_commas(s, i + 1, in_quotes, quote_char, in_brackets + 1)
         ELSE IF char = "]" /\ ~in_quotes
         THEN check_invalid_commas(s, i + 1, in_quotes, quote_char,
                                   IF in_brackets - 1 > 0 THEN in_brackets - 1 ELSE 0)
         ELSE IF char = "," /\ ~in_quotes /\ in_brackets = 0
         THEN TRUE
         ELSE check_invalid_commas(s, i + 1, in_quotes, quote_char, in_brackets)

\* the comma loop of validate_selector in handlers.py: TRUE when it returns
\* the comma error
RECURSIVE handlers_comma_scan(_, _, _, _, _)
handlers_comma_scan(s, i, in_quotes, quote_char, in_brackets) ==
    IF i > Len(s) THEN FALSE
    ELSE LET char == s[i] IN
         IF char \in Quotes /\ (i = 1 \/ s[i - 1] # "\\")
         THEN IF ~in_quotes
              THEN handlers_comma_scan(s, i + 1, TRUE, char, in_brackets)
              ELSE IF char = quote_char
              THEN handlers_comma_scan(s, i + 1, FALSE, "", in_brackets)
              ELSE handlers_comma_scan(s, i + 1, in_quotes, quote_char, in_brackets)
         ELSE IF char \in { "[", "(" }
         THEN handlers_comma_scan(s, i + 1, in_quotes, quote_char, in_brackets + 1)
         ELSE IF char \in { "]", ")" }
         THEN handlers_comma_scan(s, i + 1, in_quotes, quote_char, in_brackets - 1)
         ELSE IF char = "," /\ ~in_quotes /\ in_brackets = 0
         THEN TRUE
         ELSE handlers_comma_scan(s, i + 1, in_quotes, quote_char, in_brackets)

\* selector.count(",") > 0 and the like
Count(s, sub) ==
    Cardinality({ i \in 1 .. Len(s) - Len(sub) + 1 : SubSeq(s, i, i + Len(sub) - 1) = sub })

Verdict(ok, reason) == [ok |-> ok, reason |-> reason]

\* what validate_selector does once the comma loop is over
AfterCommaCheck(sel, comma) ==
    IF comma THEN Verdict(FALSE, "comma outside quotes/brackets")
    ELSE IF Count(sel, << ",", "," >>) > 0 THEN Verdict(FALSE, "double comma")
    ELSE IF Count(sel, << ">", ">" >>) > 0 /\ Count(sel, << "," >>) > 0
    THEN Verdict(FALSE, "mixes >> and comma")
    ELSE Verdict(TRUE, "")

\* BrowserController.validate_selector
controller_validate_selector(sel) ==
    IF Strip(sel) = << >> THEN Verdict(FALSE, "empty")
    ELSE AfterCommaCheck(Strip(sel), controller_comma_scan(Strip(sel), 1, FALSE, "", 0))

\* BrowserInteractor.validate_selector
interactor_validate_selector(sel) ==
    IF Strip(sel) = << >> THEN Verdict(FALSE, "empty")
    ELSE AfterCommaCheck(Strip(sel), check_invalid_commas(Strip(sel), 1, FALSE, "", 0))

BroadSelectors == { << "body" >>, << "html" >>, << "*" >> }

\* validate_selector(selector, tool_name) of handlers.py: the error text, or
\* << >> for a locator it lets through
handlers_validate_selector(sel, tool_name) ==
    IF Strip(sel) = << >>
    THEN << "Error", ": Empty selector provided to ", tool_name >>
    ELSE IF handlers_comma_scan(sel, 1, FALSE, "", 0)
    THEN << "Error", ": Invalid selector '" >> \o sel
             \o << "' for ", tool_name, ". Contains comma-separated selectors." >>
    ELSE IF Strip(sel) \in BroadSelectors
    THEN << "Error", ": Invalid selector '" >> \o sel
             \o << "' for ", tool_name, ". Selector is too broad." >>
    ELSE << >>

\* how a page operation ends
PageOutcomes == { "ok", "timeout", "error" }

\* a call of a BrowserController operation that takes a locator: whether it
\* raised, with what message, and the page operations it performed
Performed(raises, text, ops) == [raises |-> raises, text |-> text, ops |-> ops]

InvalidSelector(v) == Performed(TRUE, << "Invalid selector: ", v.reason >>, << >>)

\* BrowserController.click: the three strategies, each failing the same way
controller_click(sel, page) ==
    IF ~controller_validate_selector(sel).ok
    THEN InvalidSelector(controller_validate_selector(sel))
    ELSE IF page = "ok" THEN Performed(FALSE, << >>, << "page.click" >>)
    ELSE Performed(TRUE, << "Click ", page >>,
                   << "page.click", "page.wait_for_selector", "page.wait_for_selector" >>)

\* BrowserController.type_text
controller_type_text(sel, page) ==
    IF ~controller_validate_selector(sel).ok
    THEN InvalidSelector(controller_validate_selector(sel))
    ELSE IF page = "ok"
    THEN Performed(FALSE, << >>, << "page.wait_for_selector", "element.fill" >>)
    ELSE Performed(TRUE, << "Type ", page >>, << "page.wait_for_selector" >>)

\* BrowserController.hover
controller_hover(sel, page) ==
    IF ~controller_validate_selector(sel).ok
    THEN InvalidSelector(controller_validate_selector(sel))
    ELSE IF page = "ok"
    THEN Performed(FALSE, << >>, << "page.wait_for_selector", "element.hover" >>)
    ELSE Performed(TRUE, << "Hover ", page >>, << "page.wait_for_selector" >>)

\* BrowserController.wait_for_selector: text is << "True" >> or << "False" >>
controller_wait_for_selector(sel, page) ==
    IF ~controller_validate_selector(sel).ok
    THEN InvalidSelector(controller_validate_selector(sel))
    ELSE IF page = "ok" THEN Performed(FALSE, << "True" >>, << "page.wait_for_selector" >>)
    ELSE IF page = "timeout" THEN Performed(FALSE, << "False" >>, << "page.wait_for_selector" >>)
    ELSE Performed(TRUE, << "Wait for selector failed" >>, << "page.wait_for_selector" >>)

\* the validation and the attachment wait of BrowserController.switch_to_frame
controller_find_frame(sel, page) ==
    IF ~controller_validate_selector(sel).ok
    THEN InvalidSelector(controller_validate_selector(sel))
    ELSE IF page = "ok" THEN Performed(FALSE, << >>, << "page.wait_for_selector" >>)
    ELSE Performed(TRUE, << "Iframe ", page >>, << "page.wait_for_selector" >>)

\* ContextManager.get_element_details over DOMExtractor.get_element_details
get_element_details(sel, page) ==
    IF page = "ok" THEN Performed(FALSE, << "<div>", "</div>" >>, << "page.query_selector" >>)
    ELSE IF page = "timeout"
    THEN Performed(FALSE, << "Element not found or error occurred" >>, << "page.query_selector" >>)
    ELSE Performed(FALSE, << "Error", " getting element details: ", page >>, << "page.query_selector" >>)

SelectorTools ==
    { "click", "type_text", "hover", "wait_for_element", "get_element_details",
      "switch_to_frame" }

\* the session call each handler makes with a locator its validator let through
SessionCall(tool, sel, page) ==
    CASE tool = "click" -> controller_click(sel, page)
      [] tool = "type_text" -> controller_type_text(sel, page)
      [] tool = "hover" -> controller_hover(sel, page)
      [] tool = "wait_for_element" -> controller_wait_for_selector(sel, page)
      [] tool = "get_element_details" -> get_element_details(sel, page)
      [] tool = "switch_to_frame" -> controller_find_frame(sel, page)

\* what each handler returns when the session call returned
HandlerSuccessText(tool, sel, did) ==
    CASE tool = "click" -> << "Successfully clicked: ", "description" >>
      [] tool = "type_text" -> << "Successfully typed text into " >> \o sel
      [] tool = "hover" -> << "Successfully hovered over: ", "description" >>
      [] tool = "wait_for_element" ->
            IF did.text = << "True" >>
            THEN << "Element " >> \o sel \o << " appeared" >>
            ELSE << "Element " >> \o sel \o << " did not appear within timeout" >>
      [] tool = "get_element_details" -> did.text
      [] tool = "switch_to_frame" -> << "Switched to iframe: " >> \o sel

\* what each handler returns when the session call raised; wait_for_element's
\* handler has no try, so the registry writes the text
HandlerFailureText(tool, did) ==
    CASE tool = "click" -> << "Failed", " to click ", "description", ": " >> \o did.text
      [] tool = "type_text" -> << "Failed", " to type text: " >> \o did.text
      [] tool = "hover" -> << "Failed", " to hover over ", "description", ": " >> \o did.text
      [] tool = "wait_for_element" -> ErrorText(tool, did.text)
      [] tool = "get_element_details" -> ErrorText(tool, did.text)
      [] tool = "switch_to_frame" -> << "Failed", " to switch to iframe: " >> \o did.text

\* click_handler, type_text_handler, hover_handler, wait_for_element_handler,
\* get_element_details_handler and switch_to_frame_handler, as the registry
\* returns their result
selector_handler(tool, sel, page) ==
    LET error == handlers_validate_selector(sel, tool)
        did == SessionCall(tool, sel, page)
    IN  IF error # << >> THEN [text |-> error, ops |-> << >>]
        ELSE IF did.raises THEN [text |-> HandlerFailureText(tool, did), ops |-> did.ops]
        ELSE [text |-> HandlerSuccessText(tool, sel, did), ops |-> did.ops]

\* the characters locators are built from
SelectorAlphabet == { "a", ",", "[", "]", "(", "'", "\"", "\\", " " }

RECURSIVE SelectorsOfLen(_)
SelectorsOfLen(n) ==
    IF n = 0 THEN { << >> }
    ELSE { Append(sel, c) : sel \in SelectorsOfLen(n - 1), c \in SelectorAlphabet }

Selectors ==
    UNION { SelectorsOfLen(n) : n \in 0 .. MaxSelectorLen }
    \cup BroadSelectors
    \cup { << " ", "body", " " >>, << "[", "a", ",", "a", "]", ">", ">", "a" >> }

ValidateSelectorCall(class) ==
    /\ selCall = ""
    /\ selCall' = class
    /\ selResult' = IF class = "BrowserController"
                    THEN controller_validate_selector(selector)
                    ELSE interactor_validate_selector(selector)
    /\ UNCHANGED << selector, selPageOps >>
    /\ UNCHANGED << coordVars, subVars, navVars, sessVars, ctxVars, pageVars >>

ControllerValidateSelector == ValidateSelectorCall("BrowserController")

InteractorValidateSelector == ValidateSelectorCall("BrowserInteractor")

\* validate_selector of handlers.py called on its own
HandlersValidateSelector ==
    /\ selCall = ""
    /\ selCall' = "handlers"
    /\ \E tool \in SelectorTools :
          LET error == handlers_validate_selector(selector, tool) IN
          selResult' = IF error = << >> THEN Verdict(TRUE, "")
                       ELSE IF handlers_comma_scan(selector, 1, FALSE, "", 0)
                                 /\ Strip(selector) # << >>
                       THEN Verdict(FALSE, "comma outside quotes/brackets")
                       ELSE Verdict(FALSE, "empty or too broad")
    /\ UNCHANGED << selector, selPageOps >>
    /\ UNCHANGED << coordVars, subVars, navVars, sessVars, ctxVars, pageVars >>

\* one of the six tools dispatched with the locator
SelectorHandler ==
    /\ selCall = ""
    /\ \E tool \in SelectorTools, page \in PageOutcomes :
          /\ selCall' = tool
          /\ selResult' = selector_handler(tool, selector, page).text
          /\ selPageOps' = selector_handler(tool, selector, page).ops
    /\ UNCHANGED selector
    /\ UNCHANGED << coordVars, subVars, navVars, sessVars, ctxVars, pageVars >>

\* ----------------------------------------------- Coordinator.execute_task
LimitMessage ==
    << "Agent reached maximum iterations (", ToString(max_iterations),
       ") without completing the task." >>

\* the statements after the while loop
ExitValue(complete, summary) ==
    IF ~complete THEN LimitMessage
    ELSE IF summary # << >> THEN summary
    ELSE << "Task completed" >>

\* _get_retry_hint_message(2) builds [tool.name for tool in self.tools.tools]:
\* self.tools.tools is the registry's dict, iterating it yields its keys, and
\* a key is a str, which has no attribute name
RetryHintRaises(retry_count, registry) == retry_count = 2 /\ registry # { }

RetryHintText(retry_count) ==
    IF retry_count = 1 THEN << "You didn't provide any tool calls in your last response." >>
    ELSE IF retry_count = 2
    THEN << "You still haven't provided any tool calls.", "Available tools", ":" >>
    ELSE << "This is the final attempt." >>

RetryHintMsg(retry_count) ==
    Msg("user", "retry_hint", 0, RetryHintText(retry_count), << >>)

HelpHintMsg ==
    Msg("user", "help_hint", 0, << "You've encountered multiple consecutive failures." >>, << >>)

InterventionContextMsg ==
    Msg("user", "context", 0,
        << "Updated page context after human intervention", ":" >>, << >>)

ActionContextMsg(tool_name) ==
    Msg("user", "context", 0,
        << "Updated page context after ", tool_name, ":" >>, << >>)

\* the refresh made after every tool
EveryTool == CoordinatorTools

PageChangingTools == { "click", "navigate_to", "scroll", "type_text", "press_key" }

ConfirmedText ==
    << "User confirmed the action. You may proceed with the next step." >>
DeclinedText ==
    << "User DECLINED the action.", " ", "Do NOT proceed.", " ",
       "The task cannot be completed as requested." >>
InterventionDoneText ==
    << "Human intervention completed. User has manually handled the required action in the browser." >>

\* parts = result.split(":", 2) and the two defaults
ParseConfirmation(result) ==
    LET parts == SplitColon2(result) IN
    [kind |-> "confirm",
     risk |-> IF Len(parts) > 1 THEN parts[2] ELSE << "unknown" >>,
     description |-> IF Len(parts) > 2 THEN parts[3] ELSE << "Unknown action" >>]

ParseIntervention(result) ==
    [kind |-> "pause", risk |-> << >>,
     description |-> Strip(RemoveAll(result, HumanPrefix))]

\* success = not result.startswith("Error") and not result.startswith("Failed")
IsSuccess(result) ==
    ~StartsWith(result, << "Error" >>) /\ ~StartsWith(result, << "Failed" >>)

\* the failure tracking: the counter before the threshold check
FailuresCounted(failures, success) ==
    IF success THEN 0 ELSE failures + 1

HintDue(failures, success) ==
    ~success /\ FailuresCounted(failures, success) >= max_consecutive_failures

\* the counter left to grow past the threshold
FailuresAfterWithoutReset(failures, success) == FailuresCounted(failures, success)

\* the counter once the tool call has been processed
FailuresAfter(failures, success) ==
    IF HintDue(failures, success) THEN 0 ELSE FailuresCounted(failures, success)

\* the turns with the tool result left out after a human intervention
TurnsForSkippingIntervention(tc, result, human, ctxHuman, ctxAction) ==
    (IF human THEN << >> ELSE << create_tool_result_message(tc.id, result) >>)
    \o (IF human /\ ctxHuman THEN << InterventionContextMsg >> ELSE << >>)

\* the turns appended for one processed tool call: its result, the recovery
\* hint, the overview after an intervention, the overview after an action
TurnsFor(tc, result, human, ctxHuman, ctxAction) ==
    << create_tool_result_message(tc.id, result) >>
    \o (IF HintDue(consecutive_failures, IsSuccess(result)) THEN << HelpHintMsg >> ELSE << >>)
    \o (IF human /\ ctxHuman THEN << InterventionContextMsg >> ELSE << >>)
    \o (IF tc.name \in PageChangingTools /\ ctxAction
        THEN << ActionContextMsg(tc.name) >> ELSE << >>)

\* get_current_context() either returns an overview or raises
ContextOutcomes(needed) == IF needed THEN BOOLEAN ELSE { TRUE }

\* from the success check to the end of the for-loop body
Finish(tc, result, human) ==
    /\ \E ctxHuman \in ContextOutcomes(human),
          ctxAction \in ContextOutcomes(tc.name \in PageChangingTools) :
          conversation' = conversation \o TurnsFor(tc, result, human, ctxHuman, ctxAction)
    /\ consecutive_failures' = FailuresAfter(consecutive_failures, IsSuccess(result))
    /\ prompt' = NoPrompt
    /\ IF ti < Len(tool_calls)
       THEN /\ ti' = ti + 1
            /\ pc' = "tools"
            /\ UNCHANGED tool_calls
       ELSE /\ ti' = 0
            /\ pc' = "loop"
            /\ tool_calls' = << >>

\* the result handed on without the pause for the human
HumanCheckUnblocked(tc, result) == Finish(tc, result, FALSE)

\* the human-intervention check on the (possibly replaced) result
HumanCheck(tc, result) ==
    IF StartsWith(result, HumanPrefix)
    THEN /\ pc' = "human"
         /\ prompt' = ParseIntervention(result)
         /\ UNCHANGED << conversation, consecutive_failures, ti, tool_calls >>
    ELSE Finish(tc, result, FALSE)

\* the returned text handed on without the confirmation check
AfterDispatchUnintercepted(tc, result) == HumanCheck(tc, result)

\* what execute_task does with the text execute_tool returned
AfterDispatch(tc, result) ==
    IF StartsWith(result, ConfirmPrefix)
    THEN /\ pc' = "confirm"
         /\ prompt' = ParseConfirmation(result)
         /\ UNCHANGED << conversation, consecutive_failures, ti, tool_calls >>
    ELSE HumanCheck(tc, result)

\* the variables AfterDispatch leaves alone, apart from dispatched and raised
loopLocals == << task_complete, task_summary, iteration, no_tool_retry_count,
                 returned, nextId, repertoire, modelCalls >>

\* execute_task up to the loop, called when the Coordinator is at `at`: the
\* first overview and the task turn.  Of the instance's fields only
\* conversation is assigned; iteration and no_tool_retry_count are locals
ExecuteTaskAt(at) ==
    /\ pc = at
    /\ \E contextOk \in BOOLEAN :
          IF contextOk
          THEN /\ conversation' = << TaskMsg >>
               /\ pc' = "loop"
               /\ raised' = raised
          ELSE /\ pc' = "raised"
               /\ raised' = "PlaywrightError"
               /\ UNCHANGED conversation
    /\ iteration' = 0
    /\ no_tool_retry_count' = 0
    /\ UNCHANGED << task_complete, task_summary, consecutive_failures, tool_calls,
                    ti, prompt, returned, nextId, repertoire, modelCalls,
                    dispatched, handled >>
    /\ UNCHANGED << subVars, browserVars >>

\* execute_task called on a Coordinator that has just been constructed
ExecuteTask == ExecuteTaskAt("ready")

\* execute_task called again on a Coordinator whose earlier task completed
ExecuteTaskAgain == task_complete /\ ExecuteTaskAt("returned")

\* the while condition off by one
LoopGuardOffByOne == iteration <= max_iterations /\ ~task_complete

\* while iteration < self.config.max_iterations and not self.task_complete
LoopGuard == iteration < max_iterations /\ ~task_complete

\* one pass of the while loop up to the tool calls: the model answers
ModelRespond ==
    /\ pc = "loop"
    /\ LoopGuard
    /\ \E k \in 0 .. MaxCalls :
          /\ nextId + k - 1 <= IdBudget(repertoire)
          /\ \E calls \in Responses(Asks(repertoire), nextId, k) :
                LET answered == Append(conversation, AssistantMsg(<< >>, calls))
                    n == no_tool_retry_count + 1
                IN  IF calls = << >>
                    THEN /\ no_tool_retry_count' = n
                         /\ IF n >= max_no_tool_retries
                            THEN /\ conversation' = answered
                                 /\ pc' = "returned"
                                 /\ returned' = ExitValue(task_complete, task_summary)
                                 /\ raised' = raised
                            ELSE IF RetryHintRaises(n, CoordinatorTools)
                            THEN /\ conversation' = answered
                                 /\ pc' = "raised"
                                 /\ raised' = "AttributeError"
                                 /\ returned' = returned
                            ELSE /\ conversation' = Append(answered, RetryHintMsg(n))
                                 /\ pc' = "loop"
                                 /\ UNCHANGED << returned, raised >>
                         /\ UNCHANGED << tool_calls, ti >>
                    ELSE /\ conversation' = answered
                         /\ no_tool_retry_count' = 0
                         /\ tool_calls' = calls
                         /\ ti' = 1
                         /\ pc' = "tools"
                         /\ UNCHANGED << returned, raised >>
          /\ nextId' = nextId + k
    /\ iteration' = iteration + 1
    /\ modelCalls' = modelCalls + 1
    /\ UNCHANGED << task_complete, task_summary, consecutive_failures, prompt,
                    repertoire, dispatched, handled >>
    /\ UNCHANGED << subVars, browserVars >>

\* send_message raises once the client's own retries are used up
ModelFail ==
    /\ pc = "loop"
    /\ LoopGuard
    /\ iteration' = iteration + 1
    /\ modelCalls' = modelCalls + 1
    /\ pc' = "raised"
    /\ raised' = "APIError"
    /\ UNCHANGED << conversation, task_complete, task_summary,
                    consecutive_failures, no_tool_retry_count, tool_calls, ti,
                    prompt, returned, nextId, repertoire, dispatched, handled >>
    /\ UNCHANGED << subVars, browserVars >>

\* the while condition is false: the statements after the loop
LoopExit ==
    /\ pc = "loop"
    /\ ~LoopGuard
    /\ pc' = "returned"
    /\ returned' = ExitValue(task_complete, task_summary)
    /\ UNCHANGED << conversation, task_complete, task_summary,
                    consecutive_failures, iteration, no_tool_retry_count,
                    tool_calls, ti, prompt, raised, nextId, repertoire,
                    modelCalls, dispatched, handled >>
    /\ UNCHANGED << subVars, browserVars >>

\* task_complete sent through the registry like any other tool before the return
CompleteTaskDispatched ==
    /\ pc = "tools"
    /\ tool_calls[ti].name = "task_complete"
    /\ task_complete' = TRUE
    /\ task_summary' = Get(tool_calls[ti].input, "summary", << "Task completed" >>)
    /\ returned' = task_summary'
    /\ pc' = "returned"
    /\ dispatched' = Append(dispatched, tool_calls[ti].id)
    /\ UNCHANGED << conversation, consecutive_failures, iteration,
                    no_tool_retry_count, tool_calls, ti, prompt, raised, nextId,
                    repertoire, modelCalls, handled >>
    /\ UNCHANGED << subVars, browserVars >>

\* the for loop reaches a task_complete call
CompleteTask ==
    /\ pc = "tools"
    /\ tool_calls[ti].name = "task_complete"
    /\ task_complete' = TRUE
    /\ task_summary' = Get(tool_calls[ti].input, "summary", << "Task completed" >>)
    /\ returned' = task_summary'
    /\ pc' = "returned"
    /\ UNCHANGED << conversation, consecutive_failures, iteration,
                    no_tool_retry_count, tool_calls, ti, prompt, raised, nextId,
                    repertoire, modelCalls, dispatched, handled >>
    /\ UNCHANGED << subVars, browserVars >>

\* tool.handler(**kwargs) is reached only for a registered tool; it ends by
\* returning, by raising an Exception (a call that does not bind raises
\* TypeError) or by an interrupt
HandlerCalled(registry, tc) ==
    /\ Keys(tc.input) \cap { "self", "name" } = { }
    /\ ~GetToolRaises(registry, tc.name)

HandlerEnd(registry, tc, h) ==
    IF ~HandlerCalled(registry, tc) THEN << >>
    ELSE << [id |-> tc.id,
             how |-> IF Binds(tc.name, tc.input) THEN h.kind ELSE "raise"] >>

\* delegate_handler runs a sub-loop when it is called with arguments that
\* bind and the named sub-agent exists
DelegateTarget(tc) == Get(tc.input, "subagent", << "" >>)[1]

StartsSubLoop(tc) ==
    /\ tc.name = "delegate_to_subagent"
    /\ Keys(tc.input) \cap { "self", "name" } = { }
    /\ Binds(tc.name, tc.input)
    /\ DelegateTarget(tc) \in SubAgentNames

\* delegate_handler's own return for a sub-agent that does not exist
UnknownSubAgent(tc) ==
    HReturn(<< "Unknown sub-agent", ":", " ", DelegateTarget(tc) >>)

\* click_handler, hover_handler, type_text_handler and
\* wait_for_element_handler on a page operation that ends as page does; only
\* wait_for_element_handler lets the session's exception through
primitive_handler(tool, kwargs, page) ==
    LET sel == Get(kwargs, "selector", << >>)
        did == SessionCall(tool, sel, page)
    IN  IF handlers_validate_selector(sel, tool) = << >>
           /\ did.raises /\ tool = "wait_for_element"
        THEN HRaise(did.text)
        ELSE HReturn(selector_handler(tool, sel, page).text)

Outcomes(tc) ==
    IF tc.name = "delegate_to_subagent"
    THEN { UnknownSubAgent(tc) }
    ELSE IF repertoire = "primitives"
    THEN { primitive_handler(tc.name, tc.input, page) : page \in PageOutcomes }
    ELSE HandlerOutcomes(tc.name, tc.input)

\* the for loop dispatches a call whose handler runs no sub-loop
Dispatch ==
    /\ pc = "tools"
    /\ tool_calls[ti].name # "task_complete"
    /\ ~StartsSubLoop(tool_calls[ti])
    /\ dispatched' = Append(dispatched, tool_calls[ti].id)
    /\ \E h \in Outcomes(tool_calls[ti]) :
          LET tc == tool_calls[ti]
              r == execute_tool(CoordinatorTools, tc.name, tc.input, h)
          IN  /\ handled' = handled \o HandlerEnd(CoordinatorTools, tc, h)
              /\ IF r.kind = "raise"
                 THEN /\ pc' = "raised"
                      /\ raised' = r.exc
                      /\ UNCHANGED << conversation, consecutive_failures, ti,
                                      tool_calls, prompt >>
                 ELSE /\ AfterDispatch(tc, r.text)
                      /\ raised' = raised
    /\ UNCHANGED loopLocals
    /\ UNCHANGED << subVars, browserVars >>

\* _request_user_confirmation returns: yes, no, or Ctrl-C (taken as no)
ConfirmAnswer ==
    /\ pc = "confirm"
    /\ \E answer \in { "yes", "no", "interrupt" } :
          HumanCheck(tool_calls[ti],
                     IF answer = "yes" THEN ConfirmedText ELSE DeclinedText)
    /\ UNCHANGED << dispatched, handled, raised >>
    /\ UNCHANGED loopLocals
    /\ UNCHANGED << subVars, browserVars >>

\* _request_human_intervention returns after Enter
HumanAck ==
    /\ pc = "human"
    /\ Finish(tool_calls[ti], InterventionDoneText, TRUE)
    /\ UNCHANGED << dispatched, handled, raised >>
    /\ UNCHANGED loopLocals
    /\ UNCHANGED << subVars, browserVars >>

\* Ctrl-C at the intervention prompt is re-raised
HumanInterrupt ==
    /\ pc = "human"
    /\ pc' = "raised"
    /\ raised' = "KeyboardInterrupt"
    /\ UNCHANGED << conversation, consecutive_failures, ti, tool_calls, prompt,
                    dispatched, handled >>
    /\ UNCHANGED loopLocals
    /\ UNCHANGED << subVars, browserVars >>

\* ------------------------------------------------------- SubAgent.execute
SubtaskMsg(tc) ==
    Msg("user", "task", 0,
        << "Subtask", ":", " " >> \o Get(tc.input, "subtask", << >>), << >>)

MaxStepsMessage(name) ==
    << "Sub-agent ", name, " reached maximum steps without completing the subtask." >>

\* how a fault inside the sub-loop looks to the Coordinator's dispatcher,
\* whose handler (delegate_handler) is the frame the fault passes through
SubFault(exc) ==
    IF exc = "KeyboardInterrupt" THEN HInterrupt ELSE HRaise(<< exc >>)

\* the sub-loop is over and delegate_handler's frame ends with outcome h
SubEnds(h) ==
    LET tc == tool_calls[ti]
        r == execute_tool(CoordinatorTools, tc.name, tc.input, h)
    IN  /\ subpc' = "idle"
        /\ subReturned' = IF h.kind = "return" THEN h.text ELSE << >>
        /\ handled' = handled \o HandlerEnd(CoordinatorTools, tc, h)
        /\ IF r.kind = "raise"
           THEN /\ pc' = "raised"
                /\ raised' = r.exc
                /\ UNCHANGED << conversation, consecutive_failures, ti,
                                tool_calls, prompt >>
           ELSE /\ AfterDispatch(tc, r.text)
                /\ raised' = raised
        /\ UNCHANGED dispatched
        /\ UNCHANGED loopLocals

\* the for loop dispatches a delegate_to_subagent call: execute begins
StartSubLoop ==
    /\ pc = "tools"
    /\ StartsSubLoop(tool_calls[ti])
    /\ dispatched' = Append(dispatched, tool_calls[ti].id)
    /\ pc' = "sub"
    /\ subpc' = "loop"
    /\ subAgent' = DelegateTarget(tool_calls[ti])
    /\ subConversation' = << SubtaskMsg(tool_calls[ti]) >>
    /\ step' = 0
    /\ subCalls' = << >>
    /\ subTi' = 0
    /\ subModelCalls' = 0
    /\ subDispatched' = << >>
    /\ subReturned' = << >>
    /\ UNCHANGED << conversation, consecutive_failures, ti, tool_calls, prompt,
                    raised, handled >>
    /\ UNCHANGED loopLocals
    /\ UNCHANGED browserVars

\* the step loop off by one
StepGuardOffByOne == step <= max_steps

\* for step in range(max_steps): step counts the passes begun
StepGuard == step < max_steps

\* one pass of the step loop up to the tool calls: the model answers
SubModelRespond ==
    /\ subpc = "loop"
    /\ StepGuard
    /\ step' = step + 1
    /\ subModelCalls' = subModelCalls + 1
    /\ \E k \in 0 .. MaxCalls :
          /\ nextId + k - 1 <= IdBudget(repertoire)
          /\ nextId' = nextId + k
          /\ IF k = 0
             THEN \E text \in SubAgentTexts :
                     /\ subConversation' = Append(subConversation, AssistantMsg(text, << >>))
                     /\ UNCHANGED << subCalls, subTi >>
                     /\ SubEnds(HReturn(text))
             ELSE \E calls \in Responses(SubAgentAsks, nextId, k) :
                     /\ subConversation' = Append(subConversation, AssistantMsg(<< >>, calls))
                     /\ subCalls' = calls
                     /\ subTi' = 1
                     /\ subpc' = "tools"
                     /\ UNCHANGED << pc, conversation, consecutive_failures, ti,
                                     tool_calls, prompt, raised, dispatched,
                                     handled, subReturned >>
    /\ UNCHANGED << task_complete, task_summary, iteration, no_tool_retry_count,
                    returned, repertoire, modelCalls >>
    /\ UNCHANGED << subAgent, subDispatched >>
    /\ UNCHANGED browserVars

\* send_message raises inside the sub-loop
SubModelFail ==
    /\ subpc = "loop"
    /\ StepGuard
    /\ step' = step + 1
    /\ subModelCalls' = subModelCalls + 1
    /\ SubEnds(SubFault("APIError"))
    /\ UNCHANGED << subAgent, subConversation, subCalls, subTi, subDispatched >>
    /\ UNCHANGED browserVars

\* the sub-loop's for loop dispatches one call through its own registry
SubDispatch ==
    /\ subpc = "tools"
    /\ subDispatched' = Append(subDispatched, subCalls[subTi].id)
    /\ \E h \in HandlerOutcomes(subCalls[subTi].name, subCalls[subTi].input) :
          LET tc == subCalls[subTi]
              r == execute_tool(SubAgentTools(subAgent), tc.name, tc.input, h)
          IN  IF r.kind = "raise"
              THEN /\ SubEnds(SubFault(r.exc))
                   /\ UNCHANGED << subConversation, subCalls, subTi >>
              ELSE /\ subConversation' =
                         Append(subConversation, create_tool_result_message(tc.id, r.text))
                   /\ IF subTi < Len(subCalls)
                      THEN /\ subTi' = subTi + 1
                           /\ subpc' = "tools"
                           /\ UNCHANGED subCalls
                      ELSE /\ subTi' = 0
                           /\ subpc' = "loop"
                           /\ subCalls' = << >>
                   /\ UNCHANGED << coordVars, subReturned >>
    /\ UNCHANGED << subAgent, step, subModelCalls >>
    /\ UNCHANGED browserVars

\* range(max_steps) is used up: the statements after the step loop
SubLoopExit ==
    /\ subpc = "loop"
    /\ ~StepGuard
    /\ SubEnds(HReturn(MaxStepsMessage(subAgent)))
    /\ UNCHANGED << subAgent, subConversation, step, subCalls, subTi,
                    subModelCalls, subDispatched >>
    /\ UNCHANGED browserVars

\* ------------------------------------------------------------ navigate_to
NavInit ==
    /\ navClass = ""
    /\ navUrl = << >>
    /\ navOutcome = "none"
    /\ gotoUrl = << >>

\* navigate_to(url): the guard, the scheme prefix, then page.goto, which
\* loads the page, times out or fails
navigate_to(class, url, goto) ==
    /\ navClass' = class
    /\ UNCHANGED navUrl
    /\ IF ~is_safe_url(class, url)
       THEN /\ navOutcome' = "unsafe"
            /\ gotoUrl' = << >>
       ELSE /\ gotoUrl' = GotoAddress(url)
            /\ navOutcome' = IF goto = "ok" THEN "loaded" ELSE "failed"

GotoOutcomes == { "ok", "timeout", "error" }

ControllerNavigateTo ==
    /\ navOutcome = "none"
    /\ \E goto \in GotoOutcomes :
          navigate_to("BrowserController", navUrl, goto)
    /\ UNCHANGED << coordVars, subVars, selVars, sessVars, ctxVars, pageVars >>

NavigatorNavigateTo ==
    /\ navOutcome = "none"
    /\ \E goto \in GotoOutcomes :
          navigate_to("BrowserNavigator", navUrl, goto)
    /\ UNCHANGED << coordVars, subVars, selVars, sessVars, ctxVars, pageVars >>

\* ------------------------------------------------------- browser session
\* a session operation and how it ended; index, sel and key are its argument,
\* found is how the attachment wait of switch_to_frame ended
SessionOp(op, outcome) ==
    [op |-> op, outcome |-> outcome, index |-> -1, sel |-> << >>, key |-> "",
     target |-> "", page |-> << >>, pressed |-> FALSE, found |-> ""]

\* BrowserController.__init__
SessInit ==
    /\ sess_playwright = 0
    /\ sess_context = 0
    /\ sess_page = << >>
    /\ is_started = FALSE
    /\ current_frame_selector = << >>
    /\ pages = << >>
    /\ launches = 0
    /\ kills = 0
    /\ nextHandle = 1
    /\ lastCall = SessionOp("", "")

\* start's test with a handle that a running session does not hold
AlreadyRunningWithoutPage == is_started /\ sess_page = << >> /\ sess_context # 0

\* if self._is_started and self._page is not None and self._context is not None
AlreadyRunning == is_started /\ sess_page # << >> /\ sess_context # 0

\* where start() can end: at its return, or with an exception raised by
\* sync_playwright().start(), by the browser_type test, by
\* launch_persistent_context or by new_page
StartOutcomes ==
    { "started", "engine fails", "unknown browser type", "launch fails",
      "new_page fails" }

\* a page handle: the context that opened it and its number in the context
PageHandle(ctx, n) == << ctx, n >>

\* the pages a persistent context has when it is launched
LaunchedPages(handle) == { << >>, << handle >> }

\* BrowserController.start
Start ==
    IF AlreadyRunning
    THEN /\ lastCall' = [SessionOp("start", "reused") EXCEPT !.page = sess_page]
         /\ UNCHANGED << sess_playwright, sess_context, sess_page, is_started,
                         current_frame_selector, pages, launches, kills, nextHandle >>
    ELSE /\ kills < MaxStarts
         /\ kills' = kills + 1
         /\ UNCHANGED current_frame_selector
         /\ \E how \in StartOutcomes :
               CASE how = "engine fails" ->
                      /\ sess_playwright = 0
                      /\ lastCall' = SessionOp("start", "raised")
                      /\ UNCHANGED << sess_playwright, sess_context, sess_page,
                                      is_started, pages, launches, nextHandle >>
                 [] how = "unknown browser type" ->
                      /\ sess_playwright' = 1
                      /\ lastCall' = SessionOp("start", "raised")
                      /\ UNCHANGED << sess_context, sess_page, is_started, pages,
                                      launches, nextHandle >>
                 [] how = "launch fails" ->
                      /\ sess_playwright' = 1
                      /\ launches' = launches + 1
                      /\ lastCall' = SessionOp("start", "raised")
                      /\ UNCHANGED << sess_context, sess_page, is_started, pages,
                                      nextHandle >>
                 [] how = "new_page fails" ->
                      /\ sess_playwright' = 1
                      /\ launches' = launches + 1
                      /\ sess_context' = launches + 1
                      /\ pages' = << >>
                      /\ nextHandle' = 1
                      /\ lastCall' = SessionOp("start", "raised")
                      /\ UNCHANGED << sess_page, is_started >>
                 [] how = "started" ->
                      /\ sess_playwright' = 1
                      /\ launches' = launches + 1
                      /\ sess_context' = launches + 1
                      /\ sess_page' = PageHandle(launches + 1, 1)
                      /\ pages' = << PageHandle(launches + 1, 1) >>
                      /\ nextHandle' = 2
                      /\ is_started' = TRUE
                      /\ \E found \in LaunchedPages(PageHandle(launches + 1, 1)) :
                            lastCall' = [SessionOp("start",
                                                   IF found = << >> THEN "started with a new page"
                                                   ELSE "started")
                                           EXCEPT !.page = PageHandle(launches + 1, 1)]

\* BrowserController.stop
Stop ==
    IF ~is_started
    THEN /\ lastCall' = SessionOp("stop", "not running")
         /\ UNCHANGED << sess_playwright, sess_context, sess_page, is_started,
                         current_frame_selector, pages, launches, kills, nextHandle >>
    ELSE /\ sess_page' = << >>
         /\ sess_context' = 0
         /\ sess_playwright' = 0
         /\ is_started' = FALSE
         /\ pages' = << >>
         /\ lastCall' = SessionOp("stop", "stopped")
         /\ UNCHANGED << current_frame_selector, launches, kills, nextHandle >>

\* a page of the running context opens another tab: _context.pages grows
PageOpensTab ==
    /\ is_started
    /\ sess_context # 0
    /\ Len(pages) < MaxTabs
    /\ nextHandle <= MaxHandles
    /\ pages' = Append(pages, PageHandle(sess_context, nextHandle))
    /\ nextHandle' = nextHandle + 1
    /\ lastCall' = SessionOp("", "")
    /\ UNCHANGED << sess_playwright, sess_context, sess_page, is_started,
                    current_frame_selector, launches, kills >>

\* the zero-based tab indices the tools are given
TabIndices == -1 .. MaxTabs

\* pages[tab_index], with pages kept from 1; a negative index counts from
\* the end of the list
PageAt(tab_index) ==
    IF tab_index < 0 THEN pages[Len(pages) + tab_index + 1] ELSE pages[tab_index + 1]

\* an index test that forgets the negative indices: pages[tab_index] then
\* counts from the end of the list, and raises IndexError on an empty one
InvalidIndexUpperOnly(tab_index) == tab_index >= Len(pages) \/ Len(pages) = 0

\* if tab_index < 0 or tab_index >= len(pages)
InvalidIndex(tab_index) == tab_index < 0 \/ tab_index >= Len(pages)

\* BrowserController.switch_to_tab
SwitchToTab ==
    \E tab_index \in TabIndices :
        /\ IF sess_context = 0 \/ InvalidIndex(tab_index)
           THEN /\ lastCall' = [SessionOp("switch_to_tab", "raised") EXCEPT !.index = tab_index]
                /\ UNCHANGED sess_page
           ELSE /\ sess_page' = PageAt(tab_index)
                /\ lastCall' = [SessionOp("switch_to_tab", "switched") EXCEPT !.index = tab_index]
        /\ UNCHANGED << sess_playwright, sess_context, is_started,
                        current_frame_selector, pages, launches, kills, nextHandle >>

\* close_tab's test for the sole tab, off by one
OnlyTabOffByOne == Len(pages) = 0

\* if len(pages) == 1
OnlyTab == Len(pages) = 1

\* close_tab's new_index taking the previous tab whenever there is one
NewIndexPrevious(tab_index) ==
    IF tab_index > 0 THEN tab_index - 1 ELSE tab_index + 1

\* close_tab leaving the tab it closes the active one
NewIndexSelf(tab_index) == tab_index

\* new_index = tab_index + 1 if tab_index < len(pages) - 1 else tab_index - 1
NewIndex(tab_index) ==
    IF tab_index < Len(pages) - 1 THEN tab_index + 1 ELSE tab_index - 1

RemoveAt(seq, i) == SubSeq(seq, 1, i - 1) \o SubSeq(seq, i + 1, Len(seq))

\* BrowserController.close_tab; page_to_close.close() succeeds or raises
CloseTab ==
    \E tab_index \in TabIndices, closes \in BOOLEAN :
        /\ IF sess_context = 0 \/ OnlyTab \/ InvalidIndex(tab_index)
           THEN /\ lastCall' = [SessionOp("close_tab", "raised") EXCEPT !.index = tab_index]
                /\ UNCHANGED << sess_page, pages >>
           ELSE /\ sess_page' = IF PageAt(tab_index) = sess_page
                                THEN PageAt(NewIndex(tab_index))
                                ELSE sess_page
                /\ pages' = IF closes THEN RemoveAt(pages, tab_index + 1) ELSE pages
                /\ lastCall' = [SessionOp("close_tab", IF closes THEN "closed" ELSE "close raised")
                                  EXCEPT !.index = tab_index, !.page = PageAt(tab_index),
                                         !.target = IF PageAt(tab_index) = sess_page
                                                    THEN "active tab" ELSE "other tab"]
        /\ UNCHANGED << sess_playwright, sess_context, is_started,
                        current_frame_selector, launches, kills, nextHandle >>

\* BrowserController.list_tabs: the indices of the entries with is_active
\* set, page == self._page
list_tabs == { i \in 0 .. Len(pages) - 1 : pages[i + 1] = sess_page }

\* BrowserController.get_active_tab_index: the first index whose page is
\* self._page, -1 when there is none
get_active_tab_index ==
    IF list_tabs = { } THEN -1
    ELSE CHOOSE i \in list_tabs : \A k \in list_tabs : i <= k

\* the locators the session operations are given
SessionSelectors ==
    { << "i", "f", "r", "a", "m", "e" >>, << "a", ",", "b" >>, << >> }

\* a switch_to_frame that skips the attachment wait
FrameValidated(sel, found) == controller_validate_selector(sel).ok

\* switch_to_frame reaches its last statement: the locator validates, the
\* session has a page, and wait_for_selector(state="attached") returns
FrameAttached(sel, found) ==
    /\ controller_validate_selector(sel).ok
    /\ sess_page # << >>
    /\ found = "ok"

\* BrowserController.switch_to_frame
SwitchToFrame ==
    \E sel \in SessionSelectors, found \in PageOutcomes :
        /\ IF ~FrameAttached(sel, found)
           THEN /\ lastCall' = [SessionOp("switch_to_frame", "raised")
                                  EXCEPT !.sel = sel, !.found = found]
                /\ UNCHANGED current_frame_selector
           ELSE /\ current_frame_selector' = sel
                /\ lastCall' = [SessionOp("switch_to_frame", "switched")
                                  EXCEPT !.sel = sel, !.found = found]
        /\ UNCHANGED << sess_playwright, sess_context, sess_page, is_started,
                        pages, launches, kills, nextHandle >>

\* BrowserController.switch_to_main_content
SwitchToMainContent ==
    /\ current_frame_selector' = << >>
    /\ lastCall' = SessionOp("switch_to_main_content", "switched")
    /\ UNCHANGED << sess_playwright, sess_context, sess_page, is_started,
                    pages, launches, kills, nextHandle >>

\* BrowserController._get_frame_or_page
get_frame_or_page == IF current_frame_selector # << >> THEN "frame" ELSE "page"

\* what click, type_text, hover and wait_for_selector resolve the locator
\* against: each calls self.page.click, self.page.wait_for_selector, ...
ResolvedAgainst == "page"

InteractionPrimitives == { "click", "type_text", "hover", "wait_for_element" }

\* BrowserController.click, type_text, hover and wait_for_selector
Interact ==
    \E op \in InteractionPrimitives, sel \in SessionSelectors, page \in PageOutcomes :
        /\ IF ~controller_validate_selector(sel).ok \/ sess_page = << >>
           THEN lastCall' = [SessionOp(op, "raised") EXCEPT !.sel = sel]
           ELSE lastCall' = [SessionOp(op, IF SessionCall(op, sel, page).raises
                                           THEN "page raised" ELSE "performed")
                               EXCEPT !.sel = sel, !.target = ResolvedAgainst,
                                      !.page = sess_page]
        /\ UNCHANGED << sess_playwright, sess_context, sess_page, is_started,
                        current_frame_selector, pages, launches, kills, nextHandle >>

\* BrowserController.press_key's supported_keys
supported_keys ==
    { "Enter", "Escape", "Tab", "Space", "ArrowUp", "ArrowDown", "ArrowLeft",
      "ArrowRight", "Backspace", "Delete", "Home", "End", "PageUp", "PageDown" }

\* the keys the press_key tools are given
KeyNames == { "Enter", "Tab", "Escape", "Space", "PageDown", "enter", "ESCAPE", "F5" }

\* BrowserController.press_key: "pressed", or "raised"
press_key(key, keyboard) ==
    IF key \notin supported_keys THEN "raised"
    ELSE IF sess_page = << >> THEN "raised"
    ELSE IF keyboard = "ok" THEN "pressed"
    ELSE "raised"

\* FormFiller._press_key_handler's allowed_keys
allowed_keys == { "Enter", "Tab" }

\* FormFiller's test letting every supported key through
FormFillerRejectsUnsupported(key) == key \notin supported_keys

\* if key not in allowed_keys
FormFillerRejects(key) == key \notin allowed_keys

\* if key != "Escape"
NavigatorRejects(key) == key # "Escape"

\* a role's _press_key_handler: the rejection text, or the session's
\* press_key and the text for how it ended
PressKeyHandler(role, rejects, key, keyboard) ==
    /\ lastCall' =
          IF rejects
          THEN [SessionOp(role, "only supports") EXCEPT !.key = key]
          ELSE [SessionOp(role, IF press_key(key, keyboard) = "pressed"
                                THEN "Successfully pressed key" ELSE "Failed to press key")
                  EXCEPT !.key = key, !.pressed = TRUE, !.page = sess_page]
    /\ UNCHANGED << sess_playwright, sess_context, sess_page, is_started,
                    current_frame_selector, pages, launches, kills, nextHandle >>

KeyboardOutcomes == { "ok", "error" }

\* FormFiller._press_key_handler
FormFillerPressKey ==
    \E key \in KeyNames, keyboard \in KeyboardOutcomes :
        /\ "press_key" \in FormFillerTools
        /\ PressKeyHandler("FormFiller", FormFillerRejects(key), key, keyboard)

\* Navigator._press_key_handler
NavigatorPressKey ==
    \E key \in KeyNames, keyboard \in KeyboardOutcomes :
        /\ "press_key" \in NavigatorTools
        /\ PressKeyHandler("Navigator", NavigatorRejects(key), key, keyboard)

\* ----------------------------------------------------------- page context
\* An overview is the sequence of its lines, overview.split("\n"), each line
\* given by its length.
CHARS_PER_TOKEN == 4

token_limit == TokenLimit

RECURSIVE Sum(_)
Sum(lens) == IF lens = << >> THEN 0 ELSE Head(lens) + Sum(Tail(lens))

\* len("\n".join(lines))
JoinedLen(lines) == Sum(lines) + Len(lines) - 1

\* len(str(n))
Digits(n) == IF n < 10 THEN 1 ELSE IF n < 100 THEN 2 ELSE 3

\* len(f"... (truncated, {omitted} lines omitted)")
TruncationLineLen(omitted) == 16 + Digits(omitted) + 15

\* the loop of ContextManager._truncate_overview
RECURSIVE truncate_lines(_, _, _, _)
truncate_lines(lines, i, truncated_lines, current_tokens) ==
    IF i > Len(lines) THEN truncated_lines
    ELSE LET line_tokens == lines[i] \div CHARS_PER_TOKEN IN
         IF current_tokens + line_tokens > token_limit
         THEN Append(truncated_lines, TruncationLineLen(Len(lines) - Len(truncated_lines)))
         ELSE truncate_lines(lines, i + 1, Append(truncated_lines, lines[i]),
                             current_tokens + line_tokens)

\* ContextManager._truncate_overview
truncate_overview(lines) == truncate_lines(lines, 1, << >>, 0)

\* ContextManager.get_current_context: the overview, estimated_tokens and
\* was_truncated entries of what it returns
get_current_context(lines) ==
    IF JoinedLen(lines) \div CHARS_PER_TOKEN > token_limit
    THEN [overview |-> truncate_overview(lines),
          estimated_tokens |-> JoinedLen(truncate_overview(lines)) \div CHARS_PER_TOKEN,
          was_truncated |-> TRUE]
    ELSE [overview |-> lines,
          estimated_tokens |-> JoinedLen(lines) \div CHARS_PER_TOKEN,
          was_truncated |-> FALSE]

NoContext == [overview |-> << >>, estimated_tokens |-> 0, was_truncated |-> FALSE]

CtxInit ==
    /\ overview = << 0 >>
    /\ context = NoContext

\* the overviews the extractor returns
Overviews ==
    UNION { [1 .. n -> 0 .. MaxLineLen] : n \in 1 .. MaxLines }

GetCurrentContext ==
    /\ context = NoContext
    /\ context' = get_current_context(overview)
    /\ UNCHANGED overview
    /\ UNCHANGED << coordVars, subVars, navVars, selVars, sessVars, pageVars >>

\* ------------------------------------------------- find_elements_by_text
\* An element is given by what the script reads of it: its tag, the searched
\* texts its own text nodes include, the length of its own text and whether
\* it is rendered.  Elements carry no role attribute, so nodeRole is the tag.
\* Priorities are kept in hundredths, so that textLength / 100 stays exact.
interactiveTags == { "button", "a", "input", "select", "textarea" }

Tags == { "button", "span", "p" }

Texts == { "Save" }

OwnLengths == { 1, MaxOwnLen }

Elements ==
    [ tag : Tags, own : SUBSET Texts, ownLen : OwnLengths, visible : BOOLEAN ]

Nodes == 1 .. Len(dom)

\* the elements of the subtree of node
RECURSIVE Subtree(_)
Subtree(node) ==
    { node } \cup UNION { Subtree(c) : c \in { k \in Nodes : parentElement[k] = node } }

RECURSIVE SumOwnLen(_)
SumOwnLen(nodes) ==
    IF nodes = { } THEN 0
    ELSE LET n == CHOOSE k \in nodes : TRUE
         IN dom[n].ownLen + SumOwnLen(nodes \ { n })

\* node.textContent.length
textLength(node) == SumOwnLen(Subtree(node))

\* node.textContent.includes(text)
textContentIncludes(node, text) == \E k \in Subtree(node) : text \in dom[k].own

Min(a, b) == IF a < b THEN a ELSE b

\* the variant of getPriority that scores the text only
getPriorityTextOnly(text, node) ==
    (IF text \in dom[node].own THEN 5000 ELSE 0) - Min(textLength(node), 3000)

\* getPriority, times 100
getPriority(text, node) ==
    (IF dom[node].tag \in interactiveTags THEN 10000 ELSE 0)
    + (IF text \in dom[node].own THEN 5000 ELSE 0)
    - (IF /\ dom[node].tag \in { "span", "div", "p" }
          /\ parentElement[node] # 0
          /\ dom[parentElement[node]].tag \in interactiveTags
       THEN 20000 ELSE 0)
    - (IF dom[node].tag \in { "div", "span", "body", "html" } THEN 2000 ELSE 0)
    - Min(textLength(node), 3000)

NoRole == ""

\* the elements the walker pushes to candidates
IsCandidate(text, role, node) ==
    /\ textContentIncludes(node, text)
    /\ role # NoRole => dom[node].tag = role
    /\ dom[node].visible

\* the candidates in the order the walker meets them
RECURSIVE Walk(_, _, _)
Walk(text, role, node) ==
    IF node > Len(dom) THEN << >>
    ELSE (IF IsCandidate(text, role, node) THEN << node >> ELSE << >>)
         \o Walk(text, role, node + 1)

\* candidates.sort((a, b) => b.priority - a.priority): a stable sort
RECURSIVE SortByPriority(_, _)
SortByPriority(text, candidates) ==
    IF candidates = << >> THEN << >>
    ELSE LET last == candidates[Len(candidates)]
             rest == SortByPriority(text, SubSeq(candidates, 1, Len(candidates) - 1))
             k == Cardinality({ i \in 1 .. Len(rest) :
                                  getPriority(text, rest[i]) >= getPriority(text, last) })
         IN SubSeq(rest, 1, k) \o << last >> \o SubSeq(rest, k + 1, Len(rest))

\* candidates.slice(0, 10)
topMatches(text, role) ==
    LET sorted == SortByPriority(text, Walk(text, role, 1))
    IN SubSeq(sorted, 1, Min(Len(sorted), 10))

\* the position of node in seq, 0 when it is not in it
IndexIn(seq, node) ==
    IF \E i \in 1 .. Len(seq) : seq[i] = node
    THEN CHOOSE i \in 1 .. Len(seq) : seq[i] = node
    ELSE 0

\* the elements '[data-autobrowser-find-id="idx"]' matches
MatchedBy(idx) == { node \in Nodes : markers[node] = idx }

DomInit ==
    /\ dom = << >>
    /\ parentElement = << >>
    /\ markers = << >>
    /\ findResult = << >>
    /\ findCall = << >>

\* the parents of a document in document order: the parent of an element is
\* document.body, the element before it or an ancestor of that one
RECURSIVE AncestorsOrSelf(_, _)
AncestorsOrSelf(parents, node) ==
    IF node = 0 THEN { 0 } ELSE { node } \cup AncestorsOrSelf(parents, parents[node])

Shapes(n) ==
    { parents \in [ 1 .. n -> 0 .. n - 1 ] :
        \A k \in 1 .. n :
            IF k = 1 THEN parents[k] = 0
            ELSE parents[k] \in AncestorsOrSelf(parents, k - 1) }

Roles == { NoRole, "span" }

EvaluateOutcomes == { "returns", "raises" }

\* DOMExtractor.find_elements_by_text
FindElementsByText ==
    \E text \in Texts, role \in Roles, how \in EvaluateOutcomes :
        /\ findCall' = [ text |-> text, role |-> role, outcome |-> how ]
        /\ IF how = "returns"
           THEN LET top == topMatches(text, role)
                IN /\ markers' = [ node \in Nodes |->
                                     IF IndexIn(top, node) # 0
                                     THEN IndexIn(top, node) - 1
                                     ELSE markers[node] ]
                   /\ findResult' = top
           ELSE /\ findResult' = << >>
                /\ UNCHANGED markers
        /\ UNCHANGED << dom, parentElement >>
        /\ UNCHANGED << coordVars, subVars, navVars, selVars, sessVars, ctxVars, clickVars,
                        readVars >>


\* ------------------------------------------------------------------ click
\* A click on a started session with a locator that validates.  A page
\* operation ends "ok", with PlaywrightTimeoutError ("timeout") or with
\* another PlaywrightError ("error"); clickPage says how each would end.
PageOp(strategy, op) == [strategy |-> strategy, op |-> op]

ClickPages ==
    [ click : PageOutcomes, wait2 : PageOutcomes, force : PageOutcomes,
      wait3 : PageOutcomes, script : PageOutcomes ]

Attempt(ops, outcome) == [ops |-> ops, outcome |-> outcome]

\* Strategy 1: page.click(selector, timeout=timeout)
normal_click(o) == Attempt(<< PageOp(1, "page.click") >>, o.click)

\* Strategy 2: wait until attached, then page.click(selector, force=True)
force_click(o) ==
    IF o.wait2 # "ok"
    THEN Attempt(<< PageOp(2, "page.wait_for_selector") >>, o.wait2)
    ELSE Attempt(<< PageOp(2, "page.wait_for_selector"), PageOp(2, "page.click force") >>,
                 o.force)

\* Strategy 3: wait until attached, then element.click() in the page
script_click(o) ==
    IF o.wait3 # "ok"
    THEN Attempt(<< PageOp(3, "page.wait_for_selector") >>, o.wait3)
    ELSE Attempt(<< PageOp(3, "page.wait_for_selector"), PageOp(3, "page.eval_on_selector") >>,
                 o.script)

ClickTimeoutText ==
    << "Click timeout: element '", "#go", "' not found within ", "10000", "ms. ",
       "The element might not exist on the page. ",
       "Try using find_element_by_text() first to discover the correct selector." >>

ClickFailedText ==
    << "Click failed on '", "#go", "' after trying all methods (",
       "normal", ", ", "force", ", ", "JavaScript", "). ",
       "The selector might be incorrect. Original error: ", "error" >>

ClickReturned(ops) == [ops |-> ops, raises |-> FALSE, text |-> << >>]
ClickRaised(ops, text) == [ops |-> ops, raises |-> TRUE, text |-> text]

\* a click that goes through every strategy whatever the earlier ones did
click_every_strategy(o) ==
    LET ops == normal_click(o).ops \o force_click(o).ops \o script_click(o).ops
    IN  IF script_click(o).outcome = "ok" THEN ClickReturned(ops)
        ELSE ClickRaised(ops, ClickFailedText)

\* BrowserController.click and BrowserInteractor.click from the first try on
click_strategies(o) ==
    LET s1 == normal_click(o)
        s2 == force_click(o)
        s3 == script_click(o)
    IN  IF s1.outcome = "ok" THEN ClickReturned(s1.ops)
        ELSE IF s2.outcome = "ok" THEN ClickReturned(s1.ops \o s2.ops)
        ELSE IF s3.outcome = "ok" THEN ClickReturned(s1.ops \o s2.ops \o s3.ops)
        ELSE IF s3.outcome = "timeout"
        THEN ClickRaised(s1.ops \o s2.ops \o s3.ops, ClickTimeoutText)
        ELSE ClickRaised(s1.ops \o s2.ops \o s3.ops, ClickFailedText)

ClickInit ==
    /\ clickPage = << >>
    /\ clickOps = << >>
    /\ clickResult = << >>

Click(class) ==
    /\ clickResult = << >>
    /\ clickOps' = click_strategies(clickPage).ops
    /\ clickResult' = [ class |-> class,
                        raises |-> click_strategies(clickPage).raises,
                        text |-> click_strategies(clickPage).text ]
    /\ UNCHANGED clickPage
    /\ UNCHANGED << coordVars, subVars, navVars, selVars, sessVars, ctxVars, domVars,
                    readVars >>

ControllerClick == Click("BrowserController")

InteractorClick == Click("BrowserInteractor")

\* ------------------------------------------------------ page-reading tools
NoRead == [tool |-> "", page |-> << >>]

\* no ContextManager has been constructed
ReadInit ==
    /\ extractor_page = << >>
    /\ lastRead = NoRead

\* ContextManager.__init__, called once by main() right after the session
\* has started: self.extractor = DOMExtractor(browser.page)
ContextManagerInit ==
    /\ extractor_page = << >>
    /\ lastCall.op = "start"
    /\ sess_page # << >>
    /\ extractor_page' = sess_page
    /\ UNCHANGED lastRead
    /\ UNCHANGED << coordVars, subVars, navVars, selVars, sessVars, ctxVars,
                    domVars, clickVars >>

\* the tools whose handlers go through ContextManager to its extractor
ReadTools == { "get_page_overview", "find_element_by_text", "get_element_details" }

\* the page whose URL and title get_current_context reports, and on which
\* click and type_text act: browser.page
ReportedPage == sess_page

\* the page a reading tool evaluates its script on: self.extractor.page
ExtractorPage == extractor_page

\* get_page_overview_handler, find_element_by_text_handler and
\* get_element_details_handler: each reads self.extractor.page
ReadPage ==
    \E tool \in ReadTools :
        /\ extractor_page # << >>
        /\ lastRead' = [tool |-> tool, page |-> ExtractorPage]
        /\ UNCHANGED extractor_page
        /\ UNCHANGED << coordVars, subVars, navVars, selVars, sessVars, ctxVars,
                        domVars, clickVars >>

PageInit == DomInit /\ ClickInit /\ ReadInit

\* -------------------------------------------------------- specification
vars == << coordVars, subVars, browserVars >>

Init == CoordInit /\ SubInit /\ NavInit /\ SelInit /\ SessInit /\ CtxInit /\ PageInit

Next ==
    \/ ExecuteTask
    \/ ModelRespond
    \/ ModelFail
    \/ LoopExit
    \/ CompleteTask
    \/ Dispatch
    \/ ConfirmAnswer
    \/ HumanAck
    \/ HumanInterrupt
    \/ StartSubLoop
    \/ SubModelRespond
    \/ SubModelFail
    \/ SubDispatch
    \/ SubLoopExit

Spec == Init /\ [][Next]_vars

\* one Coordinator given task after task
NextReuse == Next \/ ExecuteTaskAgain

SpecReuse == Init /\ [][NextReuse]_vars

NextGuard ==
    \/ ControllerNavigateTo
    \/ NavigatorNavigateTo

\* one navigate_to call on each address of Addresses
InitGuard ==
    /\ CoordInit
    /\ repertoire = "mixed"
    /\ SubInit
    /\ navClass = ""
    /\ navUrl \in Addresses
    /\ navOutcome = "none"
    /\ gotoUrl = << >>
    /\ SelInit
    /\ SessInit
    /\ CtxInit
    /\ PageInit

SpecGuard == InitGuard /\ [][NextGuard]_vars

NextSelector ==
    \/ ControllerValidateSelector
    \/ InteractorValidateSelector
    \/ HandlersValidateSelector
    \/ SelectorHandler

\* one validator or one tool called on each locator of Selectors
InitSelector ==
    /\ CoordInit
    /\ repertoire = "mixed"
    /\ SubInit
    /\ NavInit
    /\ selector \in Selectors
    /\ selCall = ""
    /\ selResult = << >>
    /\ selPageOps = << >>
    /\ SessInit
    /\ CtxInit
    /\ PageInit

SpecSelector == InitSelector /\ [][NextSelector]_vars

SessionStep(A) ==
    A /\ UNCHANGED << coordVars, subVars, navVars, selVars, ctxVars, pageVars >>

NextSession ==
    \/ SessionStep(Start)
    \/ SessionStep(Stop)
    \/ SessionStep(PageOpensTab)
    \/ SessionStep(SwitchToTab)
    \/ SessionStep(CloseTab)
    \/ SessionStep(SwitchToFrame)
    \/ SessionStep(SwitchToMainContent)
    \/ SessionStep(Interact)
    \/ SessionStep(FormFillerPressKey)
    \/ SessionStep(NavigatorPressKey)

InitSession ==
    /\ CoordInit
    /\ repertoire = "mixed"
    /\ SubInit
    /\ NavInit
    /\ SelInit
    /\ SessInit
    /\ CtxInit
    /\ PageInit

SpecSession == InitSession /\ [][NextSession]_vars

NextContext == GetCurrentContext

\* one get_current_context call on each overview of Overviews
InitContext ==
    /\ CoordInit
    /\ repertoire = "mixed"
    /\ SubInit
    /\ NavInit
    /\ SelInit
    /\ SessInit
    /\ overview \in Overviews
    /\ context = NoContext
    /\ PageInit

SpecContext == InitContext /\ [][NextContext]_vars

NextFind == FindElementsByText

\* find_elements_by_text calls on each document of up to MaxNodes elements
InitFind ==
    /\ CoordInit
    /\ repertoire = "mixed"
    /\ SubInit
    /\ NavInit
    /\ SelInit
    /\ SessInit
    /\ CtxInit
    /\ \E n \in 1 .. MaxNodes :
           /\ dom \in [ 1 .. n -> Elements ]
           /\ parentElement \in Shapes(n)
           /\ markers = [ k \in 1 .. n |-> -1 ]
    /\ findResult = << >>
    /\ findCall = << >>
    /\ ClickInit
    /\ ReadInit

SpecFind == InitFind /\ [][NextFind]_vars

NextClick ==
    \/ ControllerClick
    \/ InteractorClick

\* one click on each way the page operations may end
InitClick ==
    /\ CoordInit
    /\ repertoire = "mixed"
    /\ SubInit
    /\ NavInit
    /\ SelInit
    /\ SessInit
    /\ CtxInit
    /\ DomInit
    /\ clickPage \in ClickPages
    /\ clickOps = << >>
    /\ clickResult = << >>
    /\ ReadInit

SpecClick == InitClick /\ [][NextClick]_vars

\* the session of main(): started, a ContextManager made on it, then tab
\* operations, interactions and page reads in any order
NextReader ==
    \/ SessionStep(Start)
    \/ SessionStep(PageOpensTab)
    \/ SessionStep(SwitchToTab)
    \/ SessionStep(CloseTab)
    \/ SessionStep(Interact)
    \/ ContextManagerInit
    \/ ReadPage

SpecReader == InitSession /\ [][NextReader]_vars

\* ================================================================ claims
Ended == pc \in { "returned", "raised" }

\* the tool-use requests of a conversation, as <<turn index, id>>
ToolUses(conv) ==
    UNION { { << i, conv[i].calls[c].id >> : c \in 1 .. Len(conv[i].calls) } :
              i \in 1 .. Len(conv) }

ResultsFor(conv, id) ==
    { j \in 1 .. Len(conv) : conv[j].type = "tool_result" /\ conv[j].id = id }

\* every tool-use has exactly one tool-result turn with its id, after it
Paired(conv) ==
    \A u \in ToolUses(conv) :
        /\ Cardinality(ResultsFor(conv, u[2])) = 1
        /\ \A j \in ResultsFor(conv, u[2]) : j > u[1]

\* C1: execute_tool never raises: whatever tool call the Coordinator is about
\* to dispatch, registered or not, and whether its handler returns or raises
\* an exception, execute_tool returns a text, and that text starts with
\* "Error" when the lookup or the handler faulted.
C1_ExecuteToolNeverRaises ==
    (pc = "tools" /\ tool_calls[ti].name # "task_complete") =>
        \A h \in { o \in Outcomes(tool_calls[ti]) : o.kind \in { "return", "raise" } } :
            LET tc == tool_calls[ti]
                r == execute_tool(CoordinatorTools, tc.name, tc.input, h)
            IN  /\ r.kind = "return"
                /\ (GetToolRaises(CoordinatorTools, tc.name) \/ h.kind = "raise")
                      => StartsWith(r.text, << "Error" >>)

\* C2: at each model call, in the Coordinator's conversation and in the
\* sub-agent's, every tool-use request of every earlier assistant turn has
\* exactly one tool-result turn carrying its id, appended after that turn.
C2_ToolUsesPaired ==
    /\ (pc = "loop" /\ LoopGuard) => Paired(conversation)
    /\ (subpc = "loop" /\ StepGuard) => Paired(subConversation)

\* C2 witness: a model call is due in a Coordinator conversation that holds
\* a response with two tool-uses, after a sub-loop that dispatched a tool.
C2_Witness ==
    /\ pc = "loop"
    /\ LoopGuard
    /\ \E i \in 1 .. Len(conversation) : Len(conversation[i].calls) = 2
    /\ \E j \in 1 .. Len(subConversation) : subConversation[j].type = "tool_result"

\* C3: a run of no-action responses ends the task only as Exhausted: when
\* execute_task has ended while no-action responses were being counted (and
\* the model collaborator had not failed), it returned the limit message.
C3_NoActionStreakEndsExhausted ==
    (Ended /\ no_tool_retry_count > 0 /\ raised # "APIError") =>
        (pc = "returned" /\ returned = LimitMessage)

\* C4: a run in which the model keeps answering, the first overview is
\* captured and nobody interrupts ends by returning the task_complete summary
\* or the limit message, never by a raised exception.
C4_NeverEndsRaised ==
    /\ pc = "raised" => raised \in { "APIError", "PlaywrightError", "KeyboardInterrupt" }
    /\ pc = "returned" =>
          \/ returned = LimitMessage
          \/ task_complete /\ returned = task_summary

\* the ids of the calls of tool_calls at positions lo .. hi
IdsAt(lo, hi) == { tool_calls[k].id : k \in lo .. hi }

Range(seq) == { seq[k] : k \in 1 .. Len(seq) }

C5_ReturnsAtOnce ==
    (pc = "returned" /\ task_complete) =>
        /\ tool_calls[ti].name = "task_complete"
        /\ returned = Get(tool_calls[ti].input, "summary", << "Task completed" >>)
        /\ IdsAt(1, ti - 1) \subseteq Range(dispatched)
        /\ IdsAt(ti, Len(tool_calls)) \cap Range(dispatched) = { }
        /\ ResultsFor(conversation, tool_calls[ti].id) = { }
        /\ modelCalls = iteration

\* no request for task_complete was ever passed to the registry
C5_NeverThroughRegistry ==
    \A i \in 1 .. Len(conversation) : \A c \in 1 .. Len(conversation[i].calls) :
        conversation[i].calls[c].name = "task_complete" =>
            conversation[i].calls[c].id \notin Range(dispatched)

\* C5: when the for loop reaches a task_complete call, execute_task returns
\* that call's summary at once: the calls before it in the response have been
\* dispatched, no call after it is, task_complete itself never goes through
\* the registry, and nothing happens after the return (no further model call).
C5_TaskCompleteEndsLoop ==
    /\ [](C5_ReturnsAtOnce /\ C5_NeverThroughRegistry)
    /\ [][pc # "returned"]_vars

\* C5 witness: the task was completed by the second call of a response,
\* after the first had been dispatched.
C5_Witness ==
    /\ pc = "returned"
    /\ task_complete
    /\ ti = 2
    /\ tool_calls[1].id \in Range(dispatched)

\* the turns a step appends to the Coordinator's conversation
Appended == SubSeq(conversation', Len(conversation) + 1, Len(conversation'))

\* a step in which a handler called by the Coordinator's registry raised
HandlerRaisedStep ==
    /\ Len(handled') = Len(handled) + 1
    /\ handled'[Len(handled')].how = "raise"

\* C6 as stated: when a dispatched tool's handler raises, the tool-result
\* turn appended for the call starts with "Error", consecutive_failures
\* increases by exactly one, and the loop goes on.
C6_FailureCountsOne ==
    [][HandlerRaisedStep =>
          /\ Len(Appended) >= 1
          /\ Appended[1].type = "tool_result"
          /\ Appended[1].id = handled'[Len(handled')].id
          /\ StartsWith(Appended[1].content, << "Error" >>)
          /\ consecutive_failures' = consecutive_failures + 1
          /\ pc' \in { "tools", "loop" }]_vars

\* C6 amended: when a dispatched tool's handler raises an Exception, the
\* tool-result turn appended for the call starts with "Error" and the loop
\* goes on; consecutive_failures increases by exactly one, unless that
\* brings it to max_consecutive_failures, and then the recovery hint is
\* appended right after the result and the counter is back at 0.
C6_FailureCounted ==
    [][HandlerRaisedStep =>
          /\ Len(Appended) >= 1
          /\ Appended[1].type = "tool_result"
          /\ Appended[1].id = handled'[Len(handled')].id
          /\ StartsWith(Appended[1].content, << "Error" >>)
          /\ IF consecutive_failures + 1 < max_consecutive_failures
             THEN /\ consecutive_failures' = consecutive_failures + 1
                  /\ \A k \in 1 .. Len(Appended) : Appended[k].type # "help_hint"
             ELSE /\ consecutive_failures' = 0
                  /\ Len(Appended) >= 2
                  /\ Appended[2] = HelpHintMsg
          /\ pc' \in { "tools", "loop" }]_vars

\* C6 witness: the handler called last raised, which was the third failure
\* in a row: the hint follows its result and the counter is back at 0.
C6_Witness ==
    /\ Len(handled) > 0
    /\ handled[Len(handled)].how = "raise"
    /\ consecutive_failures = 0
    /\ \E j \in 2 .. Len(conversation) :
          /\ conversation[j].type = "help_hint"
          /\ conversation[j - 1].type = "tool_result"
          /\ conversation[j - 1].id = handled[Len(handled)].id
          /\ StartsWith(conversation[j - 1].content, << "Error" >>)

C7_NeverAppended ==
    \A j \in 1 .. Len(conversation) :
        conversation[j].type = "tool_result" =>
            ~StartsWith(conversation[j].content, ConfirmPrefix)

C7_Blocked ==
    pc = "confirm" =>
        /\ prompt.kind = "confirm"
        /\ ResultsFor(conversation, tool_calls[ti].id) = { }
        /\ tool_calls[ti].name = "request_confirmation" =>
              /\ prompt.risk = Get(tool_calls[ti].input, "risk_level", << >>)
              /\ prompt.description = Get(tool_calls[ti].input, "action_description", << >>)

C7_Answered ==
    pc = "confirm" =>
        /\ Len(Appended) >= 1
        /\ \/ Appended[1] = create_tool_result_message(tool_calls[ti].id, ConfirmedText)
           \/ Appended[1] = create_tool_result_message(tool_calls[ti].id, DeclinedText)
        /\ Cardinality(ResultsFor(conversation', tool_calls[ti].id)) = 1
        /\ pc' \in { "tools", "loop" }

Rank ==
    << IF pc = "ready" THEN 1 ELSE 0,
       IF Ended THEN 0 ELSE max_iterations - iteration + 1,
       IF pc \in { "tools", "sub", "confirm", "human" } THEN Len(tool_calls) - ti + 1 ELSE 0,
       CASE pc = "tools" -> 4 [] pc = "sub" -> 3 [] pc = "confirm" -> 2
         [] pc = "human" -> 1 [] OTHER -> 0,
       IF pc = "sub" THEN max_steps - step + 1 ELSE 0,
       IF pc = "sub" /\ subpc = "tools" THEN Len(subCalls) - subTi + 1 ELSE 0 >>

LexLess(a, b) ==
    \E i \in 1 .. Len(a) : a[i] < b[i] /\ \A j \in 1 .. i - 1 : a[j] = b[j]

C8_Bounded ==
    /\ modelCalls <= max_iterations
    /\ \A i \in 1 .. Len(Rank) : Rank[i] >= 0
    /\ (pc = "returned" /\ ~task_complete) => returned = LimitMessage

C8_Step ==
    /\ LexLess(Rank', Rank)
    /\ (pc = "loop" /\ iteration >= max_iterations /\ ~task_complete) =>
          (pc' = "returned" /\ returned' = LimitMessage /\ modelCalls' = modelCalls)

\* C8: execute_task makes at most max_iterations model calls; every step it
\* takes (a model call, a tool, a prompt that returns) brings it closer to its
\* end, so it terminates; at the cap without a task_complete call its next
\* step is to return the "reached maximum iterations" message.
C8_IterationCap ==
    /\ []C8_Bounded
    /\ [][C8_Step]_vars

\* C8 witness: the cap was reached by max_iterations model calls, the last
\* of them with tool calls, and the limit message was returned.
C8_Witness ==
    /\ pc = "returned"
    /\ ~task_complete
    /\ modelCalls = max_iterations
    /\ no_tool_retry_count = 0
    /\ returned = LimitMessage

AssistantTurns(conv) == { j \in 1 .. Len(conv) : conv[j].role = "assistant" }

\* C9: SubAgent.execute makes at most max_steps model calls; what it returns
\* is the text of the first response without tool calls, the last turn of its
\* conversation, with nothing dispatched after it, or else the "reached
\* maximum steps" message after max_steps responses that all had tool calls.
C9_StepBudget ==
    /\ subModelCalls <= max_steps
    /\ (subpc = "idle" /\ subReturned # << >>) =>
          LET n == Len(subConversation)
              last == subConversation[n]
              earlier == AssistantTurns(subConversation) \ { n }
          IN  IF last.role = "assistant" /\ last.calls = << >>
              THEN /\ subReturned = last.content
                   /\ \A j \in earlier : subConversation[j].calls # << >>
                   /\ Range(subDispatched) = { u[2] : u \in ToolUses(subConversation) }
                   /\ Cardinality(AssistantTurns(subConversation)) = subModelCalls
              ELSE /\ subReturned = MaxStepsMessage(subAgent)
                   /\ subModelCalls = max_steps
                   /\ Cardinality(AssistantTurns(subConversation)) = max_steps
                   /\ \A j \in AssistantTurns(subConversation) : subConversation[j].calls # << >>

\* C9 witness: a sub-loop used up its steps and returned the message.
C9_Witness ==
    /\ subpc = "idle"
    /\ subReturned = MaxStepsMessage(subAgent)
    /\ subModelCalls = max_steps
    /\ Len(subDispatched) >= max_steps

BeginsWithBlacklisted(url) ==
    \E dangerous \in dangerous_protocols : StartsWith(Lower(url), dangerous)

\* C10: for every address that begins with a blacklisted scheme, in any
\* letter case, the guard returns unsafe and navigate_to raises before the
\* page is asked to load anything; for every bare hostname it returns safe.
C10_SchemeBlacklist ==
    navOutcome # "none" =>
        /\ BeginsWithBlacklisted(navUrl) =>
              /\ ~is_safe_url(navClass, navUrl)
              /\ navOutcome = "unsafe"
              /\ gotoUrl = << >>
        /\ navUrl \in BareHostnames => is_safe_url(navClass, navUrl)

\* the addresses of Addresses whose host is loopback, link-local or private,
\* given with an http or https scheme or with no scheme
InternalAddresses ==
    { a \in SchemedAddresses :
        /\ Contains(a, SchemeSep)
        /\ \E safe \in safe_protocols : StartsWith(Strip(Lower(a)), safe)
        /\ a[Len(a)] \in PrivateAddresses \cup LocalNames }
    \cup { a \in BareHostnames : a[1] \in PrivateAddresses \cup LocalNames }

\* C11: navigate_to never asks the page to load an address whose host is
\* loopback, link-local or private, given with an http/https scheme or with
\* no scheme: every such address is rejected as unsafe.
C11_InternalHostsRejected ==
    (navOutcome # "none" /\ navUrl \in InternalAddresses) =>
        /\ ~is_safe_url(navClass, navUrl)
        /\ navOutcome = "unsafe"
        /\ gotoUrl = << >>

\* where a scan of the first i characters of a locator stands: the quote
\* character of the string it is in ("" outside strings) and the number of
\* square brackets open outside strings
RECURSIVE Lexed(_, _)
Lexed(s, i) ==
    IF i = 0 THEN [quote |-> "", depth |-> 0]
    ELSE LET before == Lexed(s, i - 1)
             escaped == i > 1 /\ s[i - 1] = "\\"
         IN  IF s[i] \in Quotes /\ ~escaped
             THEN IF before.quote = "" THEN [before EXCEPT !.quote = s[i]]
                  ELSE IF before.quote = s[i] THEN [before EXCEPT !.quote = ""]
                  ELSE before
             ELSE IF before.quote # "" THEN before
             ELSE IF s[i] = "[" THEN [before EXCEPT !.depth = @ + 1]
             ELSE IF s[i] = "]" /\ before.depth > 0 THEN [before EXCEPT !.depth = @ - 1]
             ELSE before

\* the locator has a comma outside every quoted string and every bracketed
\* segment
TopLevelComma(s) ==
    \E i \in 1 .. Len(s) :
        /\ s[i] = ","
        /\ Lexed(s, i - 1).quote = ""
        /\ Lexed(s, i - 1).depth = 0

\* C12: each validate_selector returns not-ok for a locator with a comma
\* outside every quoted string and every bracketed segment, and its comma
\* check passes for every locator without such a comma.
C12_CommaCheck ==
    selCall \in { "BrowserController", "BrowserInteractor", "handlers" } =>
        /\ TopLevelComma(selector) => ~selResult.ok
        /\ ~TopLevelComma(selector) => selResult.reason # "comma outside quotes/brackets"

\* C13: for the six tools that take a locator, a locator that is empty,
\* whitespace-only, exactly body, html or *, or that has a top-level comma
\* yields a result starting with "Error", and the call performs no page
\* operation.
C13_BadLocatorRejected ==
    (/\ selCall \in SelectorTools
     /\ \/ Strip(selector) = << >>
        \/ selector \in BroadSelectors
        \/ TopLevelComma(selector)) =>
        /\ StartsWith(selResult, << "Error" >>)
        /\ selPageOps = << >>

\* C14: FormFiller's press_key handler calls the session's press_key only
\* for Enter and Tab, Navigator's only for Escape; for any other key the
\* handler returns its rejection text and the session's press_key is not
\* called; DataReader's registry has no press_key tool.
C14_RoleKeys ==
    /\ lastCall.op = "FormFiller" =>
          /\ lastCall.pressed <=> lastCall.key \in { "Enter", "Tab" }
          /\ ~lastCall.pressed <=> lastCall.outcome = "only supports"
    /\ lastCall.op = "Navigator" =>
          /\ lastCall.pressed <=> lastCall.key = "Escape"
          /\ ~lastCall.pressed <=> lastCall.outcome = "only supports"
    /\ "press_key" \notin DataReaderTools

\* C14 witness: FormFiller was asked for Escape, a key the session supports,
\* and returned its rejection.
C14_Witness ==
    /\ lastCall.op = "FormFiller"
    /\ lastCall.key = "Escape"
    /\ lastCall.outcome = "only supports"
    /\ ~lastCall.pressed
    /\ is_started

\* C15: after stop() returns, whatever came before it, the session holds no
\* engine, context or page handle, running is false and no frame scope is
\* recorded.
C15_StopResets ==
    lastCall.op = "stop" =>
        /\ sess_playwright = 0
        /\ sess_context = 0
        /\ sess_page = << >>
        /\ ~is_started
        /\ current_frame_selector = << >>

\* C16: start() on a running session launches nothing, kills no process and
\* returns the existing page handle, leaving running, the active page, the
\* open pages and the frame scope as they were.
C16_StartIdempotent ==
    [][(is_started /\ lastCall'.op = "start") =>
          /\ lastCall'.outcome = "reused"
          /\ lastCall'.page = sess_page
          /\ launches' = launches
          /\ kills' = kills
          /\ UNCHANGED << sess_playwright, sess_context, sess_page, is_started,
                          pages, current_frame_selector >>]_vars

\* C16 witness: start() returned the page of a session that was running with
\* two tabs, the second one active, and a frame scope recorded.
C16_Witness ==
    /\ lastCall.op = "start"
    /\ lastCall.outcome = "reused"
    /\ Len(pages) = 2
    /\ sess_page = pages[2]
    /\ lastCall.page = pages[2]
    /\ current_frame_selector # << >>

\* C17: closeTab(i) with exactly one tab open fails for every index i and
\* changes nothing: the open tabs, the active tab and the frame scope are
\* what they were.
C17_SoleTabStays ==
    [][(lastCall'.op = "close_tab" /\ Len(pages) = 1) =>
          /\ lastCall'.outcome = "raised"
          /\ UNCHANGED << pages, sess_page, current_frame_selector, sess_context,
                          is_started >>]_vars

\* C17 witness: close_tab(0) was refused on a running session with one tab.
C17_Witness ==
    /\ lastCall.op = "close_tab"
    /\ lastCall.index = 0
    /\ lastCall.outcome = "raised"
    /\ is_started
    /\ Len(pages) = 1

\* C18: closeTab(i) on the active tab of n >= 2 tabs makes tab i+1 active if
\* i < n-1 and tab i-1 otherwise, whether or not the removal that follows
\* succeeds; closeTab on another tab leaves the same page active; the tab
\* closed is the one removed.
C18_NeighbourActivated ==
    [][(/\ lastCall'.op = "close_tab"
        /\ sess_context # 0
        /\ Len(pages) >= 2
        /\ lastCall'.index \in 0 .. Len(pages) - 1) =>
          LET i == lastCall'.index
              n == Len(pages)
          IN  /\ lastCall'.outcome \in { "closed", "close raised" }
              /\ IF pages[i + 1] = sess_page
                 THEN sess_page' = pages[(IF i < n - 1 THEN i + 1 ELSE i - 1) + 1]
                 ELSE sess_page' = sess_page
              /\ lastCall'.outcome = "closed" =>
                    /\ pages' = RemoveAt(pages, i + 1)
                    /\ sess_page' \in Range(pages')
              /\ lastCall'.outcome = "close raised" => pages' = pages]_vars

\* C18 witness: the last of three tabs was active and was closed, and the
\* tab before it is active now.
C18_Witness ==
    /\ lastCall.op = "close_tab"
    /\ lastCall.outcome = "closed"
    /\ lastCall.target = "active tab"
    /\ lastCall.index = 2
    /\ Len(pages) = 2
    /\ sess_page = pages[2]

\* C19: while a frame scope is recorded, click, type_text, hover and
\* wait-for resolve their locator inside that frame; with no scope recorded
\* they resolve it against the top-level page.
C19_FrameScoped ==
    (/\ lastCall.op \in InteractionPrimitives
     /\ lastCall.outcome \in { "performed", "page raised" }) =>
        lastCall.target = get_frame_or_page

\* C20: if the overview's estimated size (characters divided by 4, rounded
\* down) exceeds token_limit, the returned overview's estimated size is at
\* most token_limit and was_truncated is true; otherwise the overview is
\* returned unchanged and was_truncated is false.
C20_OverviewFits ==
    context # NoContext =>
        IF JoinedLen(overview) \div 4 > token_limit
        THEN /\ JoinedLen(context.overview) \div 4 <= token_limit
             /\ context.was_truncated
        ELSE /\ context.overview = overview
             /\ ~context.was_truncated

\* C21: after any sequence of find_elements_by_text calls on one page, each
\* locator returned by the latest call matches exactly one element, the
\* candidate it was returned for.
C21_LocatorsUnique ==
    \A i \in 1 .. Len(findResult) : MatchedBy(i - 1) = { findResult[i] }

\* the parent and child of C22: a span, div or p candidate directly inside a
\* native interactive candidate
DecorativeChild(text, role, node) ==
    /\ dom[node].tag \in { "span", "div", "p" }
    /\ parentElement[node] # 0
    /\ dom[parentElement[node]].tag \in interactiveTags
    /\ IsCandidate(text, role, node)
    /\ IsCandidate(text, role, parentElement[node])

\* C22: a matching span, div or p directly inside a matching native
\* interactive element scores strictly lower than that element and comes
\* after it in the returned list.
C22_ParentOutranksChild ==
    findCall # << >> /\ findCall.outcome = "returns" =>
        \A node \in Nodes :
            DecorativeChild(findCall.text, findCall.role, node) =>
                /\ getPriority(findCall.text, parentElement[node])
                       > getPriority(findCall.text, node)
                /\ IndexIn(findResult, parentElement[node]) # 0
                /\ IndexIn(findResult, node) # 0
                /\ IndexIn(findResult, parentElement[node]) < IndexIn(findResult, node)

C22_Witness ==
    /\ findCall # << >>
    /\ findCall.outcome = "returns"
    /\ \E node \in Nodes :
           /\ DecorativeChild(findCall.text, findCall.role, node)
           /\ findCall.text \in dom[node].own
           /\ findCall.text \notin dom[parentElement[node]].own
           /\ dom[node].ownLen = 1
           /\ textLength(parentElement[node]) > 3000
           /\ findResult = << parentElement[node], node >>

NoAction(i) ==
    conversation[i].role = "assistant" /\ conversation[i].calls = << >>

\* the number of consecutive no-action responses that ends with turn i
RECURSIVE NoActionStreak(_)
NoActionStreak(i) ==
    IF i >= 3 /\ conversation[i - 1].type = "retry_hint" /\ NoAction(i - 2)
    THEN 1 + NoActionStreak(i - 2)
    ELSE 1

\* C23: every no-action response below the threshold is followed by exactly
\* one hint turn: the generic hint after the first of a streak, the hint
\* listing the tools after the second.
C23_HintsEscalate ==
    \A i \in 1 .. Len(conversation) :
        (NoAction(i) /\ NoActionStreak(i) < max_no_tool_retries) =>
            (i < Len(conversation)
             /\ conversation[i + 1] = RetryHintMsg(NoActionStreak(i)))

\* the failures counted up to turn j of the conversation: the failed tool
\* results since the last successful one or the last recovery hint
RECURSIVE FailureStreak(_)
FailureStreak(j) ==
    IF j = 0 THEN 0
    ELSE IF conversation[j].type = "help_hint" THEN 0
    ELSE IF conversation[j].type = "tool_result"
    THEN (IF IsSuccess(conversation[j].content) THEN 0 ELSE 1 + FailureStreak(j - 1))
    ELSE FailureStreak(j - 1)

C24_Counter ==
    /\ consecutive_failures \in 0 .. max_consecutive_failures - 1
    /\ consecutive_failures = FailureStreak(Len(conversation))

C24_Hints ==
    \A j \in 1 .. Len(conversation) :
        /\ conversation[j].type = "help_hint" =>
              /\ j > 1
              /\ conversation[j - 1].type = "tool_result"
              /\ FailureStreak(j - 1) = max_consecutive_failures
        /\ (conversation[j].type = "tool_result"
            /\ FailureStreak(j) = max_consecutive_failures) =>
              (j < Len(conversation) /\ conversation[j + 1] = HelpHintMsg)

C24_HintStep ==
    (\E k \in 1 .. Len(Appended) : Appended[k].type = "help_hint") =>
        /\ Cardinality({ k \in 1 .. Len(Appended) : Appended[k].type = "help_hint" }) = 1
        /\ consecutive_failures = max_consecutive_failures - 1
        /\ consecutive_failures' = 0
        /\ pc' \in { "tools", "loop" }

\* C24: consecutive_failures is the number of failed tool results since the
\* last successful one or the last recovery hint, so a success sets it to 0
\* and it stays within 0 .. 2; the third failure in a row is followed by
\* exactly one recovery hint, which resets the counter and leaves the loop
\* running, and no recovery hint is appended otherwise.
C24_FailureStreakPolicy ==
    /\ [](C24_Counter /\ C24_Hints)
    /\ [][C24_HintStep]_vars

\* C24 witness: three failures in a row were processed, the recovery hint
\* follows the third result, the counter is back at 0 and the model is about
\* to be called again.
C24_Witness ==
    /\ pc = "loop"
    /\ LoopGuard
    /\ consecutive_failures = 0
    /\ \E j \in 2 .. Len(conversation) :
          /\ conversation[j] = HelpHintMsg
          /\ FailureStreak(j - 1) = max_consecutive_failures
          /\ FailureStreak(j) = 0

InteractionTools == { "click", "type_text", "hover", "wait_for_element" }

\* the tool call that tool-result turn j answers
CallAnswered(j) ==
    LET asked == { c \in UNION { Range(conversation[i].calls) : i \in 1 .. j - 1 } :
                     c.id = conversation[j].id }
    IN CHOOSE c \in asked : TRUE

\* tool-result turn j reports an interaction primitive that timed out
TimedOut(j) ==
    /\ conversation[j].type = "tool_result"
    /\ repertoire = "primitives"
    /\ CallAnswered(j).name \in InteractionTools
    /\ conversation[j].content
         = primitive_handler(CallAnswered(j).name, CallAnswered(j).input, "timeout").text

\* C25: every tool result of an interaction primitive that timed out is
\* classified as a failure by the Coordinator's success check, which is what
\* makes it count towards consecutive_failures.
C25_TimeoutIsFailure ==
    \A j \in 1 .. Len(conversation) :
        TimedOut(j) => ~IsSuccess(conversation[j].content)

C26_NeverAppended ==
    \A j \in 1 .. Len(conversation) :
        conversation[j].type = "tool_result" =>
            ~StartsWith(conversation[j].content, HumanPrefix)

C26_Blocked ==
    pc = "human" =>
        /\ prompt.kind = "pause"
        /\ ResultsFor(conversation, tool_calls[ti].id) = { }

C26_Acknowledged ==
    pc = "human" =>
        /\ modelCalls' = modelCalls
        /\ dispatched' = dispatched
        /\ subDispatched' = subDispatched
        /\ pc' # "raised" =>
              /\ \/ Appended = << create_tool_result_message(tool_calls[ti].id,
                                                             InterventionDoneText) >>
                 \/ Appended = << create_tool_result_message(tool_calls[ti].id,
                                                             InterventionDoneText),
                                  InterventionContextMsg >>
              /\ pc' \in { "tools", "loop" }

\* C26: a result starting with "HUMAN_INTERVENTION_REQUIRED:" is never
\* appended: the Coordinator waits at the prompt with no result appended for
\* the call, and the step that ends the wait makes no model call and no
\* dispatch; on the acknowledgement it appends the "Human intervention
\* completed" tool-result turn and after it the overview turn, or the result
\* turn alone when the overview could not be captured, and the loop goes on.
C26_InterventionPause ==
    /\ [](C26_NeverAppended /\ C26_Blocked)
    /\ [][C26_Acknowledged]_vars

\* C26 witness: one intervention was followed by its overview turn, another
\* one, whose overview could not be captured, by the next model response.
C26_Witness ==
    /\ \E j \in 2 .. Len(conversation) :
          /\ conversation[j] = InterventionContextMsg
          /\ conversation[j - 1].type = "tool_result"
          /\ conversation[j - 1].content = InterventionDoneText
    /\ \E j \in 1 .. Len(conversation) - 1 :
          /\ conversation[j].type = "tool_result"
          /\ conversation[j].content = InterventionDoneText
          /\ conversation[j + 1].role = "assistant"

\* turn j is an overview turn appended after an action
ActionContext(j) ==
    conversation[j].type = "context" /\ conversation[j] # InterventionContextMsg

\* the tool-result turn that overview turn j was appended for: the turn
\* before it, or the one before the recovery hint before it
RefreshedResult(j) ==
    IF j > 2 /\ conversation[j - 1] = HelpHintMsg THEN j - 2 ELSE j - 1

C27_OnlyAfterActions ==
    \A j \in 1 .. Len(conversation) :
        ActionContext(j) =>
            /\ RefreshedResult(j) >= 1
            /\ conversation[RefreshedResult(j)].type = "tool_result"
            /\ CallAnswered(RefreshedResult(j)).name \in
                  { "click", "navigate_to", "scroll", "type_text", "press_key" }
            /\ conversation[j] = ActionContextMsg(CallAnswered(RefreshedResult(j)).name)

C27_Refresh ==
    (Len(Appended) >= 1 /\ Appended[1].type = "tool_result"
     /\ tool_calls[ti].name \in { "click", "navigate_to", "scroll", "type_text", "press_key" }) =>
        /\ Appended[1].id = tool_calls[ti].id
        /\ Tail(Appended) \in
              { << >>, << HelpHintMsg >>,
                << ActionContextMsg(tool_calls[ti].name) >>,
                << HelpHintMsg, ActionContextMsg(tool_calls[ti].name) >> }
        /\ pc' \in { "tools", "loop" }

StrategiesRun == [ k \in 1 .. Len(clickOps) |-> clickOps[k].strategy ]

\* whether a strategy's operations, on this page, end without an exception
Succeeds(strategy) ==
    CASE strategy = 1 -> clickPage.click = "ok"
      [] strategy = 2 -> clickPage.wait2 = "ok" /\ clickPage.force = "ok"
      [] strategy = 3 -> clickPage.wait3 = "ok" /\ clickPage.script = "ok"

Ran(strategy) == \E k \in 1 .. Len(clickOps) : clickOps[k].strategy = strategy

\* C28: click makes its page operations in the order standard click, attach
\* wait and forced click, attach wait and script click; a strategy runs
\* exactly when every earlier one ended with a timeout or an engine error;
\* the call returns when one strategy succeeds and raises exactly when all
\* three have failed.
C28_FallbackLadder ==
    clickResult # << >> =>
        /\ \A k \in 1 .. Len(clickOps) - 1 : StrategiesRun[k] <= StrategiesRun[k + 1]
        /\ \A k \in 1 .. Len(clickOps) :
              clickOps[k].op =
                  CASE clickOps[k].strategy = 1 -> "page.click"
                    [] k > 1 /\ clickOps[k - 1].strategy = clickOps[k].strategy ->
                          IF clickOps[k].strategy = 2
                          THEN "page.click force" ELSE "page.eval_on_selector"
                    [] OTHER -> "page.wait_for_selector"
        /\ \A n \in 1 .. 3 : Ran(n) <=> \A m \in 1 .. n - 1 : ~Succeeds(m)
        /\ clickResult.raises <=> \A n \in 1 .. 3 : ~Succeeds(n)

\* C28 witness: the standard click timed out, the forced click met an engine
\* error after its wait, and the script click succeeded.
C28_Witness ==
    /\ clickResult # << >>
    /\ ~clickResult.raises
    /\ clickPage.click = "timeout"
    /\ clickPage.wait2 = "ok"
    /\ clickPage.force = "error"
    /\ clickOps = << PageOp(1, "page.click"), PageOp(2, "page.wait_for_selector"),
                     PageOp(2, "page.click force"), PageOp(3, "page.wait_for_selector"),
                     PageOp(3, "page.eval_on_selector") >>

\* C29: when all three strategies have failed, the error click raises names
\* the three attempts, whether the last failure was a timeout or an engine
\* error.
C29_ErrorNamesAttempts ==
    (clickResult # << >> /\ clickResult.raises) =>
        { "normal", "force", "JavaScript" } \subseteq Range(clickResult.text)

C30_Recorded ==
    lastCall'.op = "switch_to_frame" =>
        IF /\ controller_validate_selector(lastCall'.sel).ok
           /\ sess_page # << >>
           /\ lastCall'.found = "ok"
        THEN /\ lastCall'.outcome = "switched"
             /\ current_frame_selector' = lastCall'.sel
        ELSE /\ lastCall'.outcome = "raised"
             /\ current_frame_selector' = current_frame_selector

C30_Cleared ==
    lastCall'.op = "switch_to_main_content" => current_frame_selector' = << >>

\* C30: switch_to_frame records its locator as the frame scope exactly when
\* the locator passes validate_selector and the wait for the attached
\* element returns; otherwise it raises and leaves the recorded scope, or
\* the absence of one, as it was; switch_to_main_content leaves no scope.
C30_FrameScopeRecorded ==
    [][C30_Recorded /\ C30_Cleared]_vars

\* C30 witness: with the scope "iframe" recorded, a switch_to_frame whose
\* target was not found within the wait raised and left the scope in place.
C30_Witness ==
    /\ lastCall.op = "switch_to_frame"
    /\ lastCall.outcome = "raised"
    /\ lastCall.found = "timeout"
    /\ lastCall.sel = << "i", "f", "r", "a", "m", "e" >>
    /\ sess_page # << >>
    /\ current_frame_selector = << "i", "f", "r", "a", "m", "e" >>

\* ------------------------------------------------------------------ C31
\* the step is a call of the tab operation op
TabCall(op) == lastCall'.op = op

\* i < 0 or i >= the number of open tabs
OutOfRange(i) == i < 0 \/ i >= Len(pages)

\* C31, first half: switch_to_tab and close_tab called with an index below 0
\* or not below the number of open tabs raise, and leave the active tab and
\* the open tabs as they were
C31_InvalidRejected ==
    [][ (lastCall'.op \in { "switch_to_tab", "close_tab" }
         /\ OutOfRange(lastCall'.index))
        => /\ lastCall'.outcome = "raised"
           /\ sess_page' = sess_page
           /\ pages' = pages ]_vars

\* C31, second half: switch_to_tab called with a valid index makes the tab at
\* that index the active one and changes nothing else of the session
C31_ValidSwitches ==
    [][ (TabCall("switch_to_tab") /\ ~OutOfRange(lastCall'.index))
        => /\ lastCall'.outcome = "switched"
           /\ sess_page' = pages[lastCall'.index + 1]
           /\ UNCHANGED << sess_playwright, sess_context, is_started,
                           current_frame_selector, pages, launches, kills,
                           nextHandle >> ]_vars

\* C31: switch_to_tab(i) and close_tab(i) with i < 0 or i >= the number of
\* open tabs fail with an error and leave the active tab and the open tabs
\* unchanged; switch_to_tab(i) with a valid i makes the tab at index i the
\* active one and changes nothing else
C31_TabIndexValidated == C31_InvalidRejected /\ C31_ValidSwitches

\* a session with two tabs whose second tab was made the active one by
\* switch_to_tab(1), and on which close_tab(2) was then refused
C31_Witness ==
    /\ is_started
    /\ Len(pages) = 2
    /\ sess_page = pages[2]
    /\ current_frame_selector # << >>
    /\ lastCall.op = "close_tab"
    /\ lastCall.index = 2
    /\ lastCall.outcome = "raised"

\* ------------------------------------------------------------------ C32
\* the step is a page read, and the session operation before it was a
\* switch_to_tab that succeeded
ReadAfterSwitch ==
    /\ lastRead' # lastRead
    /\ lastRead'.tool \in ReadTools
    /\ lastCall.op = "switch_to_tab"
    /\ lastCall.outcome = "switched"

\* C32: after switch_to_tab(i) succeeds, get_page_overview,
\* find_element_by_text and get_element_details read the page of tab i, the
\* page that click and type_text act on and whose URL and title
\* get_current_context reports
C32_ReadsActiveTab ==
    [][ ReadAfterSwitch
        => /\ lastRead'.page = pages[lastCall.index + 1]
           /\ lastRead'.page = ReportedPage ]_vars

\* ------------------------------------------------------------------ C33
\* turn j is a tool result whose text is the model collaborator's failure,
\* as execute_tool words a fault of the delegate handler
ModelFailureAsResult(j) ==
    /\ conversation[j].type = "tool_result"
    /\ conversation[j].content = ErrorText("delegate_to_subagent", << "APIError" >>)

\* C33: a failure of the model collaborator that is left after the client's
\* retries ends execute_task with that failure, whether the Coordinator or a
\* delegate sub-loop made the call; it is never a tool-result text after
\* which the loop goes on
C33_ModelFailurePropagates ==
    /\ raised = "APIError" => pc = "raised"
    /\ \A j \in 1 .. Len(conversation) : ~ModelFailureAsResult(j)

\* ------------------------------------------------------------------ C34
\* the tools that only the Coordinator's registry may hold
CoordinatorOnlyTools ==
    { "delegate_to_subagent", "request_confirmation", "request_human_help",
      "task_complete" }

SubLoopRuns == subpc # "idle"

\* the Coordinator is inside delegate_handler exactly while a sub-loop runs
C34_Inside == (pc = "sub") <=> SubLoopRuns

\* a step inside a sub-loop is not the Coordinator's: it makes no model
\* call of the Coordinator, dispatches none of its tool calls and adds
\* nothing to its conversation, and the sub-loop stays the one that began
C34_CoordinatorWaits ==
    [][ (SubLoopRuns /\ subpc' # "idle")
        => /\ UNCHANGED << modelCalls, iteration, dispatched, conversation,
                           tool_calls, ti, subAgent >>
           /\ subConversation'[1] = subConversation[1]
           /\ step' >= step ]_vars

\* the Coordinator goes on only in the step in which the sub-loop ends
C34_ReturnsAtEnd ==
    [][ (pc = "sub" /\ pc' # "sub") => (SubLoopRuns /\ subpc' = "idle") ]_vars

\* no sub-agent's registry holds a tool that starts a sub-loop, prompts the
\* human or ends the task
C34_Registries ==
    \A a \in SubAgentNames : SubAgentTools(a) \cap CoordinatorOnlyTools = { }

\* C34: delegation is strictly nested and one level deep: while a sub-loop
\* runs the Coordinator makes no model call and dispatches no tool, control
\* returns to it only when the sub-loop returns, and no sub-agent registry
\* contains delegate_to_subagent, request_confirmation, request_human_help
\* or task_complete
C34_StrictlyNested ==
    /\ [](C34_Inside /\ C34_Registries)
    /\ C34_CoordinatorWaits
    /\ C34_ReturnsAtEnd

\* a sub-loop asked for task_complete, its registry held no such tool, and
\* control is back in the Coordinator with the fault as the delegate's result
C34_Witness ==
    /\ pc \in { "loop", "tools" }
    /\ subpc = "idle"
    /\ subModelCalls > 0
    /\ subDispatched # << >>
    /\ \E j \in 1 .. Len(conversation) :
          /\ conversation[j].type = "tool_result"
          /\ conversation[j].content = ErrorText("delegate_to_subagent", << "ValueError" >>)

\* ------------------------------------------------------------------ C35
\* the conversation of the call under way holds a model response
ModelCalledInThisTask ==
    \E j \in 1 .. Len(conversation) : conversation[j].role = "assistant"

\* C35: each call of execute_task, also one made after an earlier task
\* completed on the same Coordinator, starts from a fresh conversation and
\* fresh completion state: with max_iterations >= 1 it returns only after
\* at least one model call of its own, never with the earlier task's summary
C35_FreshTask ==
    /\ pc = "loop" /\ iteration = 0 => ~task_complete
    /\ pc = "returned" => ModelCalledInThisTask

\* ------------------------------------------------------------------ C36
\* the tool call whose result the Coordinator is handling
HandledCall == tool_calls[ti]

\* C36: the confirmation prompt is raised only for the result of a
\* request_confirmation call and the human-intervention pause only for the
\* result of a request_human_help call; the result text of no other tool
\* triggers either
C36_PromptsOnlyForRequests ==
    /\ pc = "confirm" => HandledCall.name = "request_confirmation"
    /\ pc = "human" => HandledCall.name = "request_human_help"

\* ------------------------------------------------------------------ C37
\* C37: on a running session, after any sequence of switch_to_tab and
\* close_tab calls, successful or failing, interleaved with pages opening
\* tabs, at least one tab is open and exactly one open tab is the active
\* one: list_tabs marks exactly one entry and get_active_tab_index is not -1
C37_OneActiveTab ==
    is_started =>
        /\ Len(pages) >= 1
        /\ Cardinality(list_tabs) = 1
        /\ get_active_tab_index \in 0 .. Len(pages) - 1
        /\ pages[get_active_tab_index + 1] = sess_page

\* the session has as many tabs as it may; close_tab was called on the
\* active one, its neighbour became the active tab, and the page's close
\* raised
C37_Witness ==
    /\ is_started
    /\ Len(pages) = MaxTabs
    /\ lastCall.op = "close_tab"
    /\ lastCall.outcome = "close raised"
    /\ lastCall.target = "active tab"
    /\ lastCall.index = MaxTabs - 1
    /\ get_active_tab_index = MaxTabs - 2

\* ------------------------------------------------------------------ C38
\* the step is a close_tab call that raised: refused for its index or for
\* the sole tab, or failed in the page's own close
CloseTabRaised ==
    /\ lastCall'.op = "close_tab"
    /\ lastCall'.outcome \in { "raised", "close raised" }

\* C38: if close_tab(i) raises for any reason, a failure of the page's own
\* close included, the active tab and the open tabs are the same as before
\* the call
C38_FailedCloseChangesNothing ==
    [][ CloseTabRaised => (sess_page' = sess_page /\ pages' = pages) ]_vars

\* ------------------------------------------------------------------ C39
\* C39: BrowserController.validate_selector and
\* BrowserInteractor.validate_selector give the same ok/not-ok verdict for
\* every locator, those with unbalanced closing brackets included
C39_SameVerdict ==
    /\ selCall = "BrowserController" =>
           selResult.ok = interactor_validate_selector(selector).ok
    /\ selCall = "BrowserInteractor" =>
           selResult.ok = controller_validate_selector(selector).ok

====
